---- MODULE Spec2Model ----
(***************************************************************************)
(* The quadtree spatial index of memegeom (src/src/geom/qt/quadtree.rs,    *)
(* src/src/geom/qt/query.rs) over the rectangle / point part of the shape  *)
(* algebra (src/src/primitive/rect.rs, point.rs, line_shape.rs,            *)
(* src/src/geom/distance.rs, intersects.rs).                               *)
(*                                                                         *)
(* Coordinates are f64 in the source.  The model keeps them on the lattice *)
(* of multiples of 1/Scale, written as integers (x stands for x/Scale), so *)
(* that f64::midpoint is exact for every node rectangle down to depth      *)
(* MAX_DEPTH + 1 and the EP-tolerant comparisons of geom::math coincide    *)
(* with the exact ones (the lattice spacing is far above EP).  A distance  *)
(* d is carried as d*d: sqrt is strictly monotone on the lattice values,   *)
(* so min, <, >= and "is zero" are those of the source.                    *)
(* Option<T> is a sequence: <<>> is None, <<v>> is Some(v).                *)
(* Rust index i of a Vec is position i + 1 of the sequence modelling it.   *)
(***************************************************************************)
EXTENDS Integers, Sequences, FiniteSets, TLC

\* quadtree.rs:18-20
TEST_THRESHOLD == 4
MAX_DEPTH == 7
NO_NODE == 0

\* Bounds of the exploration.
MaxAdds == 1
MaxQueries == 5
MaxRemoves == 2
MaxTwinChanges == 2
MaxTwinQueries == 4
MaxDeepShapes == 1
MaxDeepQueries == 37

Scale == 2 ^ (MAX_DEPTH + 1)
U(n) == n * Scale

None == << >>
Some(v) == << v >>
IsSome(o) == o # << >>
Unwrap(o) == o[1]

----------------------------------------------------------------------------
(* geom::math: comparisons with absolute tolerance EP; exact on the lattice *)
eq(a, b) == a = b
lt(a, b) == a < b
le(a, b) == a <= b
gt(a, b) == a > b
ge(a, b) == a >= b

Max2(a, b) == IF a >= b THEN a ELSE b
Min2(a, b) == IF a <= b THEN a ELSE b

----------------------------------------------------------------------------
(* Shapes.  One record shape for every variant: k is the Shape variant,    *)
(* (l, b, r, t) the rectangle (a Point is l = r = x, b = t = y), parts the *)
(* live shapes of a Compound's own quadtree in slot order.                 *)
Prim(k, l, b, r, t) == [k |-> k, l |-> l, b |-> b, r |-> r, t |-> t, parts |-> << >>]
rt(l, b, r, t) == Prim("Rect", l, b, r, t)
rt_excl(l, b, r, t) == Prim("RectExcl", l, b, r, t)
pt(x, y) == Prim("Point", x, y, x, y)
line == Prim("Line", 0, 0, 0, 0)
compound(parts) == [k |-> "Compound", l |-> 0, b |-> 0, r |-> 0, t |-> 0, parts |-> parts]

IsRt(s) == s.k \in {"Rect", "RectExcl"}

----------------------------------------------------------------------------
(* Points, vectors and the orientation predicates.  A point is a record    *)
(* [x, y].  Where the source takes a square root or divides, the model     *)
(* computes the exact value and has no value for an input whose result is  *)
(* not on the lattice (Inexact): the inputs are chosen so that it is.      *)
P(x, y) == [x |-> x, y |-> y]
PtSub(a, b) == P(a.x - b.x, a.y - b.y)
PtAdd(a, b) == P(a.x + b.x, a.y + b.y)
cross(a, p) == a.x * p.y - a.y * p.x
dot(a, p) == a.x * p.x + a.y * p.y
mag2(a) == a.x * a.x + a.y * a.y
Abs(n) == IF n < 0 THEN -n ELSE n
ne(a, b) == a # b

Inexact(n) == CHOOSE v \in {} : v = n

ExactDiv(a, b) == IF a % b = 0 THEN a \div b ELSE Inexact(a)

RECURSIVE Gcd(_, _)
Gcd(a, b) == IF b = 0 THEN a ELSE Gcd(b, a % b)

RECURSIVE SqrtIn(_, _, _)
SqrtIn(n, lo, hi) ==
  IF lo > hi THEN Inexact(n)
  ELSE LET mid == (lo + hi) \div 2
       IN IF mid * mid = n THEN mid
          ELSE IF mid * mid < n THEN SqrtIn(n, mid + 1, hi) ELSE SqrtIn(n, lo, mid - 1)

\* f64::sqrt of a squared lattice length
Sqrt(n) == SqrtIn(n, 0, Min2(n, 46340))

\* the squared distance of two points (Pt::dist)
Dist2(a, b) == mag2(PtSub(b, a))

\* d - r clamped at 0 (`(d - r).max(0.0)`), on squared distances
SubR(d2, r) ==
  IF r = 0 THEN d2
  ELSE IF d2 <= r * r THEN 0
  ELSE (Sqrt(d2) - r) * (Sqrt(d2) - r)

\* A Line or a Segment keeps st in (l, b) and en in (r, t).
LineOf(st, en) == Prim("Line", st.x, st.y, en.x, en.y)
seg(st, en) == Prim("Segment", st.x, st.y, en.x, en.y)
St(s) == P(s.l, s.b)
En(s) == P(s.r, s.t)
Dir(s) == PtSub(En(s), St(s))
PtOf(s) == P(s.l, s.b)
AsPt(p) == pt(p.x, p.y)

orientation(l, p) ==
  LET v == cross(Dir(l), PtSub(p, St(l)))
  IN IF eq(v, 0) THEN 0 ELSE IF v > 0 THEN 1 ELSE -1
is_collinear(a, b, c) == orientation(LineOf(a, b), c) = 0
is_left_of(l, p) == orientation(l, p) >= 0
is_right_of(l, p) == orientation(l, p) <= 0
is_strictly_left_of(l, p) == orientation(l, p) > 0
pts_strictly_right_of(l, pts) == \A i \in 1..Len(pts) : orientation(l, pts[i]) < 0

Reverse(seq) == [i \in 1..Len(seq) |-> seq[Len(seq) + 1 - i]]

\* convex.rs:8-17: the scan of remove_collinear
RcScan(pts) ==
  LET F[i \in 2..Len(pts)] ==
        IF i = 2 THEN << pts[1], pts[2] >>
        ELSE LET out == F[i - 1]
                 l == Len(out)
             IN IF is_collinear(out[l - 1], out[l], pts[i])
                THEN Append(SubSeq(out, 1, l - 1), pts[i])
                ELSE Append(out, pts[i])
  IN F[Len(pts)]

\* convex.rs:21-25: the points to drop at the front of the seam
RECURSIVE RcStart(_, _)
RcStart(out, start) ==
  IF Len(out) - start >= 3 /\ is_collinear(out[Len(out)], out[start + 1], out[start + 2])
  THEN RcStart(out, start + 1)
  ELSE start

\* convex.rs:26-31: the points to drop at the back of the seam
RECURSIVE RcPop(_, _)
RcPop(out, start) ==
  IF Len(out) - start >= 3 /\ is_collinear(out[Len(out) - 1], out[Len(out)], out[start + 1])
  THEN RcPop(SubSeq(out, 1, Len(out) - 1), start)
  ELSE out

\* convex.rs:5-38
remove_collinear(pts, wrap_around) ==
  IF Len(pts) <= 2 THEN pts
  ELSE LET out == RcScan(pts)
       IN IF wrap_around /\ Len(out) >= 3
          THEN LET start == RcStart(out, 0)
                   popped == RcPop(out, start)
               IN IF start > 0 THEN SubSeq(popped, start + 1, Len(popped)) ELSE popped
          ELSE out

\* convex.rs:40-44
ensure_ccw(pts) ==
  IF Len(pts) > 2 /\ ~is_left_of(LineOf(pts[1], pts[2]), pts[3]) THEN Reverse(pts) ELSE pts

\* convex.rs:46-58
is_convex_ccw(pts) ==
  \A i \in 0..(Len(pts) - 1) :
    is_strictly_left_of(LineOf(pts[i + 1], pts[((i + 1) % Len(pts)) + 1]), pts[((i + 2) % Len(pts)) + 1])

----------------------------------------------------------------------------
(* The other primitives.  r is the radius of a Circle, Capsule or Path;    *)
(* pts the stored points; tri the triangles of a polygon.                  *)
circ(p, r) == [k |-> "Circle", p |-> p, r |-> r]
circ_excl(p, r) == [k |-> "CircleExcl", p |-> p, r |-> r]
cap(st, en, r) == [k |-> "Capsule", st |-> st, en |-> en, r |-> r]
cap_excl(st, en, r) == [k |-> "CapsuleExcl", st |-> st, en |-> en, r |-> r]

Excl(s) == s.k \in { "CapsuleExcl", "CircleExcl", "PathExcl", "PolyExcl", "RectExcl", "TriExcl" }

\* the constructors of the boundary variant of shape s
cap_prim(s, st, en, r) == IF Excl(s) THEN cap_excl(st, en, r) ELSE cap(st, en, r)
circ_prim(s, p, r) == IF Excl(s) THEN circ_excl(p, r) ELSE circ(p, r)

\* triangle.rs:52-61
tri(a, b, c) == [k |-> "Tri", pts |-> ensure_ccw(<< a, b, c >>)]
tri_excl(a, b, c) == [k |-> "TriExcl", pts |-> ensure_ccw(<< a, b, c >>)]
tri_prim(s, a, b, c) == IF Excl(s) THEN tri_excl(a, b, c) ELSE tri(a, b, c)

\* path_shape.rs:38-46
path(pts, r) == [k |-> "Path", pts |-> remove_collinear(pts, FALSE), r |-> r]
path_excl(pts, r) == [k |-> "PathExcl", pts |-> remove_collinear(pts, FALSE), r |-> r]

\* polygon.rs:43-44: the stored outline
PolyOutline(pts) == ensure_ccw(remove_collinear(pts, TRUE))

\* The triangulations earcut may return for an outline, as index triples:
\* none for fewer than three points, the triangle itself for three, either
\* diagonal for a convex quadrilateral.
Earcuts(pts) ==
  CASE Len(pts) < 3 -> { << >> }
    [] Len(pts) = 3 -> { << << 0, 1, 2 >> >> }
    [] Len(pts) = 4 -> { << << 0, 1, 2 >>, << 0, 2, 3 >> >>, << << 1, 2, 3 >>, << 1, 3, 0 >> >> }

\* polygon.rs:36-56, with tri_idx one of the triangulations of the outline
PolyNew(k, pts, tri_idx) ==
  LET out == PolyOutline(pts)
  IN [k |-> k, pts |-> out,
      tri |-> [i \in 1..Len(tri_idx) |->
                 tri_prim([k |-> k], out[tri_idx[i][1] + 1], out[tri_idx[i][2] + 1], out[tri_idx[i][3] + 1])],
      is_convex |-> is_convex_ccw(out)]
poly(pts, tri_idx) == PolyNew("Poly", pts, tri_idx)
poly_excl(pts, tri_idx) == PolyNew("PolyExcl", pts, tri_idx)

\* capsule.rs:110-112
CapSeg(a) == seg(a.st, a.en)

\* triangle.rs:67-73
TriSegs(t) == << seg(t.pts[1], t.pts[2]), seg(t.pts[2], t.pts[3]), seg(t.pts[3], t.pts[1]) >>

\* rect.rs:100-111
RtPts(a) == << P(a.l, a.b), P(a.r, a.b), P(a.r, a.t), P(a.l, a.t) >>
RtSegs(a) ==
  << seg(RtPts(a)[1], RtPts(a)[2]), seg(RtPts(a)[2], RtPts(a)[3]),
     seg(RtPts(a)[3], RtPts(a)[4]), seg(RtPts(a)[4], RtPts(a)[1]) >>

\* polygon.rs:205-232: the edges of an outline, the last one back to the first point
edges(pts) == [i \in 1..Len(pts) |-> << pts[i], pts[(i % Len(pts)) + 1] >>]

\* path_shape.rs:70-76
caps(a) ==
  IF Len(a.pts) = 1 THEN << cap_prim(a, a.pts[1], a.pts[1], a.r) >>
  ELSE [i \in 1..(Len(a.pts) - 1) |-> cap_prim(a, a.pts[i], a.pts[i + 1], a.r)]

\* rect.rs:237-243
enclosing(pa, pb) == rt(Min2(pa.x, pb.x), Min2(pa.y, pb.y), Max2(pa.x, pb.x), Max2(pa.y, pb.y))

\* bounds.rs:4-18
pt_cloud_bounds(pts) ==
  IF Len(pts) = 0 THEN rt(0, 0, 0, 0)
  ELSE LET xs == { pts[i].x : i \in 1..Len(pts) }
           ys == { pts[i].y : i \in 1..Len(pts) }
           lo(S) == CHOOSE m \in S : \A v \in S : m <= v
           hi(S) == CHOOSE m \in S : \A v \in S : m >= v
       IN rt(lo(xs), lo(ys), hi(xs), hi(ys))

\* rect.rs:135-139 with dx = dy = -r: the rectangle grown by r on every side
Inflate(b, r) == rt(b.l - r, b.b - r, b.r + r, b.t + r)

\* rect.rs:76-115
center_x(r) == (r.l + r.r) \div 2
center_y(r) == (r.b + r.t) \div 2
bl_quadrant(r) == rt(r.l, r.b, center_x(r), center_y(r))
br_quadrant(r) == rt(center_x(r), r.b, r.r, center_y(r))
tr_quadrant(r) == rt(center_x(r), center_y(r), r.r, r.t)
tl_quadrant(r) == rt(r.l, center_y(r), center_x(r), r.t)

\* rect.rs:126-131, point.rs:128, line_shape.rs:82, segment.rs:95-97,
\* circle.rs:83-88, capsule.rs:122-127, triangle.rs:89-94, polygon.rs:89-94,
\* path_shape.rs:56-64, compound.rs:63-66
is_empty_set(s) ==
  CASE s.k = "Rect" -> FALSE
    [] s.k = "RectExcl" -> le(s.r, s.l) \/ le(s.t, s.b)
    [] s.k = "Point" -> FALSE
    [] s.k = "Line" -> FALSE

\* rect.rs:142-155 (RtPrimitive::contains)
RtContainsPt(a, p) ==
  IF is_empty_set(a) THEN FALSE
  ELSE IF a.k = "Rect"
       THEN ge(p.l, a.l) /\ ge(p.b, a.b) /\ le(p.l, a.r) /\ le(p.b, a.t)
       ELSE gt(p.l, a.l) /\ gt(p.b, a.b) /\ lt(p.l, a.r) /\ lt(p.b, a.t)

\* rect.rs:158-189
contains_rt(a, r) ==
  IF is_empty_set(r) THEN TRUE
  ELSE IF is_empty_set(a) THEN FALSE
  ELSE IF a.k = "Rect" \/ r.k = "RectExcl"
       THEN ge(r.l, a.l) /\ le(r.r, a.r) /\ ge(r.b, a.b) /\ le(r.t, a.t)
       ELSE gt(r.l, a.l) /\ lt(r.r, a.r) /\ gt(r.b, a.b) /\ lt(r.t, a.t)

\* rect.rs:192-211 (RtPrimitive::intersects)
RtIntersects(a, r) ==
  IF is_empty_set(a) \/ is_empty_set(r) THEN FALSE
  ELSE IF a.k = "Rect" /\ r.k = "Rect"
       THEN le(a.l, r.r) /\ ge(a.r, r.l) /\ ge(a.t, r.b) /\ le(a.b, r.t)
       ELSE lt(a.l, r.r) /\ gt(a.r, r.l) /\ gt(a.t, r.b) /\ lt(a.b, r.t)

\* intersects.rs:340-348
rt_intersects_rt(a, b) ==
  IF is_empty_set(a) \/ is_empty_set(b) THEN FALSE ELSE RtIntersects(a, b)

\* Fault injection for united: the receiver is returned as it is.
united_keep_first(a, b) == rt(a.l, a.b, a.r, a.t)

\* rect.rs:213-219
united(a, b) == rt(Min2(a.l, b.l), Min2(a.b, b.b), Max2(a.r, b.r), Max2(a.t, b.t))

\* distance.rs:226-237; Pt::clamp point.rs:83-85; the result is the squared distance
pt_rt_dist(p, b) ==
  IF is_empty_set(b) THEN None
  ELSE IF RtContainsPt(b, p) THEN Some(0)
  ELSE LET cx == Max2(b.l, Min2(p.l, b.r))
           cy == Max2(b.b, Min2(p.b, b.t))
       IN Some((cx - p.l) * (cx - p.l) + (cy - p.b) * (cy - p.b))

\* distance.rs:260-272; the result is the squared distance
rt_rt_dist(a, b) ==
  IF is_empty_set(a) \/ is_empty_set(b) THEN None
  ELSE LET x == Max2(Max2(a.l - b.r, b.l - a.r), 0)
           y == Max2(Max2(a.b - b.t, b.b - a.t), 0)
       IN Some(x * x + y * y)

\* rect.rs:346-349,367-370, point.rs:120-122, line_shape.rs:73-76
bounds(s) ==
  CASE IsRt(s) -> Some(rt(s.l, s.b, s.r, s.t))
    [] s.k = "Point" -> Some(rt(s.l, s.b, s.l, s.b))
    [] s.k = "Line" -> None

\* shape.rs:89-108 with the is_empty_set of every variant (circle.rs:83-88,
\* capsule.rs:122-127, triangle.rs:89-94, polygon.rs:89-94,
\* path_shape.rs:56-64, compound.rs:64-67)
RECURSIVE shape_is_empty_set(_)
shape_is_empty_set(s) ==
  CASE IsRt(s) \/ s.k \in {"Point", "Line"} -> is_empty_set(s)
    [] s.k = "Segment" -> FALSE
    [] s.k \in {"Circle", "Capsule"} -> FALSE
    [] s.k \in {"CircleExcl", "CapsuleExcl"} -> eq(s.r, 0)
    [] s.k = "Tri" -> FALSE
    [] s.k = "TriExcl" -> is_collinear(s.pts[1], s.pts[2], s.pts[3])
    [] s.k = "Poly" -> Len(s.pts) = 0
    [] s.k = "PolyExcl" -> Len(s.tri) = 0
    [] s.k = "Path" -> Len(s.pts) = 0
    [] s.k = "PathExcl" -> Len(s.pts) = 0 \/ eq(s.r, 0)
    [] s.k = "Compound" -> \A i \in 1..Len(s.parts) : shape_is_empty_set(s.parts[i])

\* shape.rs:64-83 with the bounds of every variant
shape_bounds(s) ==
  CASE IsRt(s) \/ s.k \in {"Point", "Line"} -> bounds(s)
    [] s.k = "Segment" -> Some(enclosing(St(s), En(s)))
    [] s.k \in {"Circle", "CircleExcl"} -> Some(rt(s.p.x - s.r, s.p.y - s.r, s.p.x + s.r, s.p.y + s.r))
    [] s.k \in {"Capsule", "CapsuleExcl"} -> Some(Inflate(enclosing(s.st, s.en), s.r))
    [] s.k \in {"Tri", "TriExcl", "Poly", "PolyExcl"} -> Some(pt_cloud_bounds(s.pts))
    [] s.k \in {"Path", "PathExcl"} -> Some(Inflate(pt_cloud_bounds(s.pts), s.r))

----------------------------------------------------------------------------
(* geom::distance, geom::contains and geom::intersects.  A point operand   *)
(* is a record [x, y]; every distance is the squared distance.             *)

unwrap_or0(o) == IF o = None THEN 0 ELSE Unwrap(o)

\* intersects.rs:15-17
both_include(a, b) == ~Excl(a) /\ ~Excl(b)

\* intersects.rs:19-21, on the squared distance
dist_intersects(a, b, d2, threshold) ==
  IF both_include(a, b) THEN d2 <= threshold * threshold ELSE d2 < threshold * threshold

\* intersects.rs:25-30
bounds_disjoint(a, b) == IsSome(a) /\ IsSome(b) /\ ~RtIntersects(Unwrap(a), Unwrap(b))

\* intersects.rs:32-37
bounds_disjoint_rt(a, b) == IsSome(a) /\ ~RtIntersects(Unwrap(a), b)

\* contains.rs:14-16
bounds_exclude_pt(container, p) == IsSome(container) /\ ~RtContainsPt(Unwrap(container), AsPt(p))

\* contains.rs:19-21
bounds_exclude_rt(container, contained) == IsSome(container) /\ ~contains_rt(Unwrap(container), contained)

\* contains.rs:24-29
bounds_exclude_bounds(container, contained) ==
  IsSome(container) /\ IsSome(contained) /\ ~contains_rt(Unwrap(container), Unwrap(contained))

\* distance.rs:22-31: the least of the values there are; the early return
\* at a zero returns the least value too
min_dist_opt(opts) ==
  LET vals == { Unwrap(opts[i]) : i \in { j \in 1..Len(opts) : IsSome(opts[j]) } }
  IN IF vals = {} THEN None ELSE Some(CHOOSE m \in vals : \A v \in vals : m <= v)

\* segment.rs:45-54
SegContains(s, p) == RtContainsPt(enclosing(St(s), En(s)), AsPt(p)) /\ is_collinear(St(s), En(s), p)

\* line_shape.rs:60-69; k = dir.dot(p - st) / mag2 is kept in lowest terms
project(l, p) ==
  IF mag2(Dir(l)) = 0 THEN St(l)
  ELSE LET d == dot(Dir(l), PtSub(p, St(l)))
           g == Gcd(Abs(d), mag2(Dir(l)))
           n == d \div g
           q == mag2(Dir(l)) \div g
       IN P(St(l).x + ExactDiv(n * Dir(l).x, q), St(l).y + ExactDiv(n * Dir(l).y, q))

\* distance.rs:239-246
pt_seg_dist(a, b) ==
  LET dist == Min2(Dist2(a, St(b)), Dist2(a, En(b)))
  IN IF SegContains(b, project(b, a)) THEN Min2(dist, Dist2(a, project(b, a))) ELSE dist

\* distance.rs:166-168
line_pt_dist(a, b) == Dist2(b, project(a, b))

\* intersects.rs:396-424
seg_intersects_seg(a, b) ==
  LET a_st == orientation(b, St(a))
      a_en == orientation(b, En(a))
      b_st == orientation(a, St(b))
      b_en == orientation(a, En(b))
      a_rt == enclosing(St(a), En(a))
      b_rt == enclosing(St(b), En(b))
  IN \/ a_st # a_en /\ b_st # b_en
     \/ a_st = 0 /\ RtContainsPt(b_rt, AsPt(St(a)))
     \/ a_en = 0 /\ RtContainsPt(b_rt, AsPt(En(a)))
     \/ b_st = 0 /\ RtContainsPt(a_rt, AsPt(St(b)))
     \/ b_en = 0 /\ RtContainsPt(a_rt, AsPt(En(b)))

\* distance.rs:288-300
seg_seg_dist(a, b) ==
  IF seg_intersects_seg(a, b) THEN 0
  ELSE Min2(Min2(pt_seg_dist(St(a), b), pt_seg_dist(En(a), b)),
            Min2(pt_seg_dist(St(b), a), pt_seg_dist(En(b), a)))

\* intersects.rs:374-394
rt_intersects_seg(a, b) ==
  IF shape_is_empty_set(a) THEN FALSE
  ELSE IF RtContainsPt(a, AsPt(St(b))) \/ RtContainsPt(a, AsPt(En(b))) THEN TRUE
  ELSE IF pts_strictly_right_of(b, RtPts(a)) THEN FALSE
  ELSE \A i \in 1..4 : ~pts_strictly_right_of(RtSegs(a)[i], << St(b), En(b) >>)

\* distance.rs:274-286
rt_seg_dist(a, b) ==
  IF shape_is_empty_set(a) THEN None
  ELSE IF rt_intersects_seg(a, b) THEN Some(0)
  ELSE min_dist_opt([i \in 1..4 |-> Some(seg_seg_dist(RtSegs(a)[i], b))])

\* contains.rs:31-43
cap_contains_pt(a, b) ==
  IF shape_is_empty_set(a) THEN FALSE
  ELSE IF bounds_exclude_pt(shape_bounds(a), b) THEN FALSE
  ELSE IF Excl(a) THEN pt_seg_dist(b, CapSeg(a)) < a.r * a.r
       ELSE pt_seg_dist(b, CapSeg(a)) <= a.r * a.r

\* contains.rs:82-91
circ_contains_pt(a, b) ==
  IF shape_is_empty_set(a) THEN FALSE
  ELSE IF Excl(a) THEN Dist2(a.p, b) < a.r * a.r ELSE Dist2(a.p, b) <= a.r * a.r

\* contains.rs:447-461
tri_contains_pt(a, b) ==
  IF shape_is_empty_set(a) THEN FALSE
  ELSE LET o0 == orientation(LineOf(a.pts[1], a.pts[2]), b)
           o1 == orientation(LineOf(a.pts[2], a.pts[3]), b)
           o2 == orientation(LineOf(a.pts[3], a.pts[1]), b)
           min == Min2(Min2(o0, o1), o2)
           max == Max2(Max2(o0, o1), o2)
       IN IF Excl(a) THEN min > 0 \/ max < 0 ELSE min >= 0 \/ max <= 0

\* distance.rs:188-191
polyline_pt_dist(a, b) ==
  min_dist_opt([i \in 1..Len(a) |-> Some(pt_seg_dist(b, seg(edges(a)[i][1], edges(a)[i][2])))])

\* contains.rs:222-234: the winding number of the outline around b
Winding(a, b) ==
  LET W[i \in 0..Len(a.pts)] ==
        IF i = 0 THEN 0
        ELSE LET p0 == edges(a.pts)[i][1]
                 p1 == edges(a.pts)[i][2]
             IN IF ge(p0.y, b.y)
                THEN IF lt(p1.y, b.y) /\ is_right_of(LineOf(p0, p1), b) THEN W[i - 1] - 1 ELSE W[i - 1]
                ELSE IF ge(p1.y, b.y) /\ is_left_of(LineOf(p0, p1), b) THEN W[i - 1] + 1 ELSE W[i - 1]
  IN W[Len(a.pts)]

\* contains.rs:210-244
poly_contains_pt(a, b) ==
  IF shape_is_empty_set(a) THEN FALSE
  ELSE IF bounds_exclude_pt(shape_bounds(a), b) THEN FALSE
  ELSE IF Winding(a, b) = 0 THEN FALSE
  ELSE IF Excl(a) THEN ne(unwrap_or0(polyline_pt_dist(a.pts, b)), 0)
  ELSE TRUE

\* intersects.rs:39-51
cap_intersects_cap(a, b) ==
  IF shape_is_empty_set(a) \/ shape_is_empty_set(b) THEN FALSE
  ELSE IF bounds_disjoint(shape_bounds(a), shape_bounds(b)) THEN FALSE
  ELSE dist_intersects(a, b, seg_seg_dist(CapSeg(a), CapSeg(b)), a.r + b.r)

\* intersects.rs:53-71
cap_intersects_circ(a, b) ==
  IF shape_is_empty_set(a) \/ shape_is_empty_set(b) THEN FALSE
  ELSE IF both_include(a, b) THEN cap_contains_pt(cap(a.st, a.en, a.r + b.r), b.p)
  ELSE cap_contains_pt(cap_excl(a.st, a.en, a.r + b.r), b.p)

\* intersects.rs:73-89
cap_intersects_path(a, b) ==
  IF shape_is_empty_set(a) \/ shape_is_empty_set(b) THEN FALSE
  ELSE \E i \in 1..Len(caps(b)) : cap_intersects_cap(a, caps(b)[i])

\* intersects.rs:124-145
cap_intersects_tri(a, b) ==
  IF shape_is_empty_set(a) \/ shape_is_empty_set(b) THEN FALSE
  ELSE IF tri_contains_pt(b, a.st) \/ tri_contains_pt(b, a.en) THEN TRUE
  ELSE \E i \in 1..3 : dist_intersects(a, b, seg_seg_dist(CapSeg(a), TriSegs(b)[i]), a.r)

\* intersects.rs:91-105
cap_intersects_poly(a, b) ==
  IF shape_is_empty_set(a) \/ shape_is_empty_set(b) THEN FALSE
  ELSE \E i \in 1..Len(b.tri) : cap_intersects_tri(a, b.tri[i])

\* intersects.rs:107-122
cap_intersects_rt(a, b) ==
  IF shape_is_empty_set(a) \/ shape_is_empty_set(b) THEN FALSE
  ELSE IF bounds_disjoint_rt(shape_bounds(a), b) THEN FALSE
  ELSE IF RtContainsPt(b, AsPt(a.st)) \/ RtContainsPt(b, AsPt(a.en)) THEN TRUE
  ELSE dist_intersects(a, b, Unwrap(rt_seg_dist(b, CapSeg(a))), a.r)

\* intersects.rs:147-156
circ_intersects_circ(a, b) ==
  IF shape_is_empty_set(a) \/ shape_is_empty_set(b) THEN FALSE
  ELSE dist_intersects(a, b, Dist2(a.p, b.p), a.r + b.r)

\* intersects.rs:158-174
circ_intersects_path(a, b) ==
  IF shape_is_empty_set(a) \/ shape_is_empty_set(b) THEN FALSE
  ELSE \E i \in 1..Len(caps(b)) : cap_intersects_circ(caps(b)[i], a)

\* intersects.rs:215-247
circ_intersects_tri(a, b) ==
  IF shape_is_empty_set(a) \/ shape_is_empty_set(b) THEN FALSE
  ELSE IF bounds_disjoint(shape_bounds(a), shape_bounds(b)) THEN FALSE
  ELSE IF tri_contains_pt(b, a.p) THEN TRUE
  ELSE \E i \in 1..3 :
         IF both_include(a, b)
         THEN cap_contains_pt(cap(St(TriSegs(b)[i]), En(TriSegs(b)[i]), a.r), a.p)
         ELSE cap_contains_pt(cap_excl(St(TriSegs(b)[i]), En(TriSegs(b)[i]), a.r), a.p)

\* intersects.rs:176-193
circ_intersects_poly(a, b) ==
  IF shape_is_empty_set(a) \/ shape_is_empty_set(b) THEN FALSE
  ELSE IF bounds_disjoint(shape_bounds(a), shape_bounds(b)) THEN FALSE
  ELSE \E i \in 1..Len(b.tri) : circ_intersects_tri(a, b.tri[i])

\* point.rs:84-87
clamp(p, r) == P(Max2(r.l, Min2(p.x, r.r)), Max2(r.b, Min2(p.y, r.t)))

\* intersects.rs:195-213
circ_intersects_rt(a, b) ==
  IF shape_is_empty_set(a) \/ shape_is_empty_set(b) THEN FALSE
  ELSE IF bounds_disjoint_rt(shape_bounds(a), b) THEN FALSE
  ELSE RtContainsPt(b, AsPt(a.p)) \/ dist_intersects(a, b, Dist2(clamp(a.p, b), a.p), a.r)

\* intersects.rs:249-264
line_intersects_line(a, b) ==
  LET a_is_point == eq(mag2(Dir(a)), 0)
      b_is_point == eq(mag2(Dir(b)), 0)
  IN IF a_is_point /\ b_is_point THEN St(a) = St(b)
     ELSE IF a_is_point THEN orientation(b, St(a)) = 0
     ELSE IF b_is_point THEN orientation(a, St(b)) = 0
     ELSE ne(cross(Dir(a), Dir(b)), 0) \/ orientation(a, St(b)) = 0

\* intersects.rs:271-286
path_intersects_path(a, b) ==
  IF shape_is_empty_set(a) \/ shape_is_empty_set(b) THEN FALSE
  ELSE \E i \in 1..Len(caps(a)), j \in 1..Len(caps(b)) : cap_intersects_cap(caps(a)[i], caps(b)[j])

\* intersects.rs:288-303
path_intersects_rt(a, b) ==
  IF shape_is_empty_set(a) \/ shape_is_empty_set(b) THEN FALSE
  ELSE \E i \in 1..Len(caps(a)) : cap_intersects_rt(caps(a)[i], b)

\* intersects.rs:305-320
path_intersects_poly(a, b) ==
  IF shape_is_empty_set(a) \/ shape_is_empty_set(b) THEN FALSE
  ELSE \E i \in 1..Len(caps(a)) : cap_intersects_poly(caps(a)[i], b)

\* intersects.rs:350-372
rt_intersects_tri(a, b) ==
  IF shape_is_empty_set(a) \/ shape_is_empty_set(b) THEN FALSE
  ELSE /\ \A i \in 1..3 : ~pts_strictly_right_of(TriSegs(b)[i], RtPts(a))
       /\ \A i \in 1..4 : ~pts_strictly_right_of(RtSegs(a)[i], b.pts)

\* intersects.rs:322-337
poly_intersects_rt(a, b) ==
  IF shape_is_empty_set(a) \/ shape_is_empty_set(b) THEN FALSE
  ELSE \E i \in 1..Len(a.tri) : rt_intersects_tri(b, a.tri[i])

\* distance.rs:33-43
cap_cap_dist(a, b) ==
  IF shape_is_empty_set(a) \/ shape_is_empty_set(b) THEN None
  ELSE Some(SubR(seg_seg_dist(CapSeg(a), CapSeg(b)), a.r + b.r))

\* distance.rs:45-55
cap_circ_dist(a, b) ==
  IF shape_is_empty_set(a) \/ shape_is_empty_set(b) THEN None
  ELSE Some(SubR(pt_seg_dist(b.p, CapSeg(a)), a.r + b.r))

\* distance.rs:57-66
cap_path_dist(a, b) ==
  IF shape_is_empty_set(a) \/ shape_is_empty_set(b) THEN None
  ELSE min_dist_opt([i \in 1..Len(caps(b)) |-> cap_cap_dist(a, caps(b)[i])])

\* distance.rs:96-106
cap_seg_dist(a, b) ==
  IF shape_is_empty_set(a) THEN None ELSE Some(SubR(seg_seg_dist(CapSeg(a), b), a.r))

\* distance.rs:68-82
cap_poly_dist(a, b) ==
  IF shape_is_empty_set(a) \/ shape_is_empty_set(b) THEN None
  ELSE IF cap_intersects_poly(a, b) THEN Some(0)
  ELSE min_dist_opt([i \in 1..Len(b.pts) |-> cap_seg_dist(a, seg(edges(b.pts)[i][1], edges(b.pts)[i][2]))])

\* distance.rs:84-94
cap_rt_dist(a, b) ==
  IF shape_is_empty_set(a) \/ shape_is_empty_set(b) THEN None
  ELSE IF rt_seg_dist(b, CapSeg(a)) = None THEN None
  ELSE Some(SubR(Unwrap(rt_seg_dist(b, CapSeg(a))), a.r))

\* distance.rs:108-118
circ_circ_dist(a, b) ==
  IF shape_is_empty_set(a) \/ shape_is_empty_set(b) THEN None
  ELSE Some(SubR(Dist2(a.p, b.p), a.r + b.r))

\* distance.rs:120-129
circ_path_dist(a, b) ==
  IF shape_is_empty_set(a) \/ shape_is_empty_set(b) THEN None
  ELSE min_dist_opt([i \in 1..Len(caps(b)) |-> cap_circ_dist(caps(b)[i], a)])

\* distance.rs:193-202
poly_pt_dist(a, b) ==
  IF Len(a.pts) = 0 THEN None
  ELSE IF poly_contains_pt(a, b) THEN Some(0)
  ELSE polyline_pt_dist(a.pts, b)

\* distance.rs:131-145
circ_poly_dist(a, b) ==
  IF shape_is_empty_set(a) \/ shape_is_empty_set(b) THEN None
  ELSE IF circ_intersects_poly(a, b) THEN Some(0)
  ELSE IF poly_pt_dist(b, a.p) = None THEN None
  ELSE Some(SubR(Unwrap(poly_pt_dist(b, a.p)), a.r))

\* distance.rs:147-162
circ_rt_dist(a, b) ==
  IF shape_is_empty_set(a) \/ shape_is_empty_set(b) THEN None
  ELSE IF circ_intersects_rt(a, b) THEN Some(0)
  ELSE Some(SubR(Dist2(clamp(a.p, b), a.p), a.r))

\* distance.rs:164-169 (circ_pt_dist)
circ_pt_dist(a, b) ==
  IF shape_is_empty_set(a) THEN None ELSE Some(SubR(Dist2(a.p, b), a.r))

\* distance.rs:176-186: the unwrap of a None panics
path_poly_dist_panics(a, b) ==
  /\ Len(a.pts) # 0 /\ Len(b.pts) # 0
  /\ \E i \in 1..Len(caps(a)) :
       /\ cap_poly_dist(caps(a)[i], b) = None
       /\ \A j \in 1..(i - 1) : cap_poly_dist(caps(a)[j], b) # Some(0)

\* distance.rs:176-186
path_poly_dist(a, b) ==
  IF Len(a.pts) = 0 \/ Len(b.pts) = 0 THEN None
  ELSE min_dist_opt([i \in 1..Len(caps(a)) |-> cap_poly_dist(caps(a)[i], b)])

\* distance.rs:204-217
poly_rt_dist(a, b) ==
  IF shape_is_empty_set(a) \/ shape_is_empty_set(b) THEN None
  ELSE IF poly_intersects_rt(a, b) THEN Some(0)
  ELSE min_dist_opt([i \in 1..Len(a.pts) |-> rt_seg_dist(b, seg(edges(a.pts)[i][1], edges(a.pts)[i][2]))])

\* distance.rs:248-257
rt_path_dist(a, b) ==
  IF shape_is_empty_set(a) \/ shape_is_empty_set(b) THEN None
  ELSE min_dist_opt([i \in 1..Len(caps(b)) |-> cap_rt_dist(caps(b)[i], a)])

\* contains.rs:45-63
cap_contains_rt(a, b) ==
  IF shape_is_empty_set(b) THEN TRUE
  ELSE IF shape_is_empty_set(a) THEN FALSE
  ELSE IF bounds_exclude_rt(shape_bounds(a), b) THEN FALSE
  ELSE \A i \in 1..4 : cap_contains_pt(a, RtPts(b)[i])

\* contains.rs:65-80
circ_contains_rt(a, b) ==
  IF shape_is_empty_set(b) THEN TRUE
  ELSE IF shape_is_empty_set(a) THEN FALSE
  ELSE \A i \in 1..4 : circ_contains_pt(a, RtPts(b)[i])

\* contains.rs:93-117
path_contains_rt(a, b) ==
  IF shape_is_empty_set(b) THEN TRUE
  ELSE IF shape_is_empty_set(a) THEN FALSE
  ELSE IF bounds_exclude_rt(shape_bounds(a), b) THEN FALSE
  ELSE \E i \in 1..Len(caps(a)) : cap_contains_rt(caps(a)[i], b)

\* contains.rs:268-295
poly_contains_seg(a, b) ==
  IF shape_is_empty_set(a) THEN FALSE
  ELSE IF bounds_exclude_bounds(shape_bounds(a), shape_bounds(b)) THEN FALSE
  ELSE IF ~poly_contains_pt(a, St(b)) \/ ~poly_contains_pt(a, En(b)) THEN FALSE
  ELSE IF a.is_convex THEN TRUE
  ELSE \A i \in 1..Len(a.pts) :
         LET p0 == edges(a.pts)[i][1]
             p1 == edges(a.pts)[i][2]
         IN ~(/\ orientation(b, p0) # orientation(b, p1)
              /\ orientation(LineOf(p0, p1), St(b)) # orientation(LineOf(p0, p1), En(b)))

\* contains.rs:162-178
poly_contains_circ(a, b) ==
  IF shape_is_empty_set(b) THEN TRUE
  ELSE IF shape_is_empty_set(a) THEN FALSE
  ELSE IF ~poly_contains_pt(a, b.p) THEN FALSE
  ELSE unwrap_or0(polyline_pt_dist(a.pts, b.p)) >= b.r * b.r

\* Pt::perp (point.rs:54-56) times r: the unit vector to the right of dir, scaled
PerpTimes(dir, r) ==
  IF r = 0 THEN P(0, 0)
  ELSE P(ExactDiv((-dir.y) * r, Sqrt(mag2(dir))), ExactDiv(dir.x * r, Sqrt(mag2(dir))))

\* capsule.rs:98-101
left_seg(c) ==
  seg(PtSub(c.st, PerpTimes(PtSub(c.en, c.st), c.r)), PtSub(c.en, PerpTimes(PtSub(c.en, c.st), c.r)))

\* capsule.rs:105-108
right_seg(c) ==
  seg(PtAdd(c.st, PerpTimes(PtSub(c.en, c.st), c.r)), PtAdd(c.en, PerpTimes(PtSub(c.en, c.st), c.r)))

\* capsule.rs:88-94
st_cap(c) == circ_prim(c, c.st, c.r)
en_cap(c) == circ_prim(c, c.en, c.r)

\* contains.rs:126-160
poly_contains_cap(a, b) ==
  IF shape_is_empty_set(b) THEN TRUE
  ELSE IF shape_is_empty_set(a) THEN FALSE
  ELSE IF bounds_exclude_bounds(shape_bounds(a), shape_bounds(b)) THEN FALSE
  ELSE IF b.st = b.en THEN poly_contains_circ(a, st_cap(b))
  ELSE /\ poly_contains_circ(a, st_cap(b))
       /\ poly_contains_circ(a, en_cap(b))
       /\ poly_contains_seg(a, left_seg(b))
       /\ poly_contains_seg(a, right_seg(b))

\* contains.rs:180-198
poly_contains_path(a, b) ==
  IF shape_is_empty_set(b) THEN TRUE
  ELSE IF shape_is_empty_set(a) THEN FALSE
  ELSE IF bounds_exclude_bounds(shape_bounds(a), shape_bounds(b)) THEN FALSE
  ELSE \A i \in 1..Len(caps(b)) : poly_contains_cap(a, caps(b)[i])

\* contains.rs:246-266
poly_contains_rt(a, b) ==
  IF shape_is_empty_set(b) THEN TRUE
  ELSE IF shape_is_empty_set(a) THEN FALSE
  ELSE IF bounds_exclude_rt(shape_bounds(a), b) THEN FALSE
  ELSE /\ \A i \in 1..4 : poly_contains_pt(a, RtPts(b)[i])
       /\ ~a.is_convex => \A i \in 1..4 : poly_contains_seg(a, RtSegs(b)[i])

\* contains.rs:395-401
rt_contains_seg(a, b) ==
  IF shape_is_empty_set(a) THEN FALSE
  ELSE RtContainsPt(a, AsPt(St(b))) /\ RtContainsPt(a, AsPt(En(b)))

\* contains.rs:333-356
rt_contains_circ(a, b) ==
  IF shape_is_empty_set(b) THEN TRUE
  ELSE IF shape_is_empty_set(a) THEN FALSE
  ELSE IF ~RtContainsPt(a, AsPt(b.p)) THEN FALSE
  ELSE IF lt(Min2(b.p.x - a.l, a.r - b.p.x), b.r) THEN FALSE
  ELSE ~lt(Min2(b.p.y - a.b, a.t - b.p.y), b.r)

\* contains.rs:297-331
rt_contains_cap(a, b) ==
  IF shape_is_empty_set(b) THEN TRUE
  ELSE IF shape_is_empty_set(a) THEN FALSE
  ELSE IF IsSome(shape_bounds(b)) /\ ~contains_rt(a, Unwrap(shape_bounds(b))) THEN FALSE
  ELSE IF b.st = b.en THEN rt_contains_circ(a, st_cap(b))
  ELSE /\ rt_contains_circ(a, st_cap(b))
       /\ rt_contains_circ(a, en_cap(b))
       /\ rt_contains_seg(a, left_seg(b))
       /\ rt_contains_seg(a, right_seg(b))

\* contains.rs:358-376
rt_contains_path(a, b) ==
  IF shape_is_empty_set(b) THEN TRUE
  ELSE IF shape_is_empty_set(a) THEN FALSE
  ELSE IF IsSome(shape_bounds(b)) /\ ~contains_rt(a, Unwrap(shape_bounds(b))) THEN FALSE
  ELSE \A i \in 1..Len(caps(b)) : rt_contains_cap(a, caps(b)[i])

\* contains.rs:378-393 (rt_contains_poly), 403-445 (rt_contains_tri)
rt_contains_poly(a, b) ==
  IF shape_is_empty_set(b) THEN TRUE
  ELSE IF shape_is_empty_set(a) THEN FALSE
  ELSE IF IsSome(shape_bounds(b)) /\ ~contains_rt(a, Unwrap(shape_bounds(b))) THEN FALSE
  ELSE \A i \in 1..Len(b.pts) : RtContainsPt(a, AsPt(b.pts[i]))

rt_contains_tri(a, b) ==
  IF shape_is_empty_set(b) THEN TRUE
  ELSE IF shape_is_empty_set(a) THEN FALSE
  ELSE \A i \in 1..3 : RtContainsPt(a, AsPt(b.pts[i]))

\* contains.rs:463-481
tri_contains_rt(a, b) ==
  IF shape_is_empty_set(b) THEN TRUE
  ELSE IF shape_is_empty_set(a) THEN FALSE
  ELSE \A i \in 1..4 : tri_contains_pt(a, RtPts(b)[i])

----------------------------------------------------------------------------
(* The dispatch of the shape algebra: which function of geom::intersects,  *)
(* geom::contains or geom::distance each match arm of each variant calls,  *)
(* and with the operands in which order.  An arm is the same for a variant *)
(* and its boundary-excluded duplicate, so the tables are keyed by the     *)
(* variant without "Excl".                                                 *)
ShapeKinds ==
  { "Capsule", "CapsuleExcl", "Circle", "CircleExcl", "Compound", "Line", "Path", "PathExcl",
    "Point", "Poly", "PolyExcl", "Rect", "RectExcl", "Segment", "Tri", "TriExcl" }

BaseKinds == { "Capsule", "Circle", "Compound", "Line", "Path", "Point", "Poly", "Rect", "Segment", "Tri" }

Base(k) ==
  CASE k = "CapsuleExcl" -> "Capsule"
    [] k = "CircleExcl" -> "Circle"
    [] k = "PathExcl" -> "Path"
    [] k = "PolyExcl" -> "Poly"
    [] k = "RectExcl" -> "Rect"
    [] k = "TriExcl" -> "Tri"
    [] OTHER -> k

\* f(self, s), f(s, self), and an arm that is todo!()
Fwd(f) == [f |-> f, swap |-> FALSE]
Rev(f) == [f |-> f, swap |-> TRUE]
Todo == [f |-> "todo!", swap |-> FALSE]

\* a match over Shape: the arms given, every other arm todo!()
Arms(impl) == [k \in BaseKinds |-> IF k \in DOMAIN impl THEN impl[k] ELSE Todo]

intersects_shape_impl ==
  [ Capsule |-> Arms([Capsule |-> Fwd("cap_intersects_cap"), Circle |-> Fwd("cap_intersects_circ"),
                      Path |-> Fwd("cap_intersects_path"), Point |-> Fwd("cap_contains_pt"),
                      Poly |-> Fwd("cap_intersects_poly"), Rect |-> Fwd("cap_intersects_rt"),
                      Tri |-> Fwd("cap_intersects_tri")]),
    Circle |-> Arms([Capsule |-> Rev("cap_intersects_circ"), Circle |-> Fwd("circ_intersects_circ"),
                     Path |-> Fwd("circ_intersects_path"), Point |-> Fwd("circ_contains_pt"),
                     Poly |-> Fwd("circ_intersects_poly"), Rect |-> Fwd("circ_intersects_rt"),
                     Tri |-> Fwd("circ_intersects_tri")]),
    Compound |-> [k \in BaseKinds |-> Fwd("QuadTree::intersects")],
    Line |-> Arms([Line |-> Fwd("line_intersects_line"), Segment |-> Fwd("line_intersects_seg")]),
    Path |-> Arms([Capsule |-> Rev("cap_intersects_path"), Circle |-> Rev("circ_intersects_path"),
                   Path |-> Fwd("path_intersects_path"), Poly |-> Fwd("path_intersects_poly"),
                   Rect |-> Fwd("path_intersects_rt")]),
    Point |-> Arms([Capsule |-> Rev("cap_contains_pt"), Circle |-> Rev("circ_contains_pt"),
                    Poly |-> Rev("poly_contains_pt"), Rect |-> Rev("RtPrimitive::contains")]),
    Poly |-> Arms([Capsule |-> Rev("cap_intersects_poly"), Circle |-> Rev("circ_intersects_poly"),
                   Path |-> Rev("path_intersects_poly"), Point |-> Fwd("poly_contains_pt"),
                   Rect |-> Fwd("poly_intersects_rt")]),
    Rect |-> Arms([Capsule |-> Rev("cap_intersects_rt"), Circle |-> Rev("circ_intersects_rt"),
                   Path |-> Rev("path_intersects_rt"), Point |-> Fwd("RtPrimitive::contains"),
                   Poly |-> Rev("poly_intersects_rt"), Rect |-> Fwd("rt_intersects_rt"),
                   Segment |-> Fwd("rt_intersects_seg"), Tri |-> Fwd("rt_intersects_tri")]),
    Segment |-> Arms([Rect |-> Rev("rt_intersects_seg"), Segment |-> Fwd("seg_intersects_seg")]),
    Tri |-> Arms([Capsule |-> Rev("cap_intersects_tri"), Circle |-> Rev("circ_intersects_tri"),
                  Point |-> Fwd("tri_contains_pt"), Rect |-> Rev("rt_intersects_tri")]) ]

contains_shape_impl ==
  [ Capsule |-> Arms([Point |-> Fwd("cap_contains_pt"), Rect |-> Fwd("cap_contains_rt")]),
    Circle |-> Arms([Point |-> Fwd("circ_contains_pt"), Rect |-> Fwd("circ_contains_rt")]),
    Compound |-> [k \in BaseKinds |-> Fwd("QuadTree::contains")],
    Line |-> Arms(<< >>),
    Path |-> Arms([Rect |-> Fwd("path_contains_rt")]),
    Point |-> Arms(<< >>),
    Poly |-> Arms([Capsule |-> Fwd("poly_contains_cap"), Circle |-> Fwd("poly_contains_circ"),
                   Path |-> Fwd("poly_contains_path"), Point |-> Fwd("poly_contains_pt"),
                   Rect |-> Fwd("poly_contains_rt"), Segment |-> Fwd("poly_contains_seg")]),
    Rect |-> Arms([Capsule |-> Fwd("rt_contains_cap"), Circle |-> Fwd("rt_contains_circ"),
                   Path |-> Fwd("rt_contains_path"), Point |-> Fwd("RtPrimitive::contains"),
                   Poly |-> Fwd("rt_contains_poly"), Rect |-> Fwd("RtPrimitive::contains_rt"),
                   Segment |-> Fwd("rt_contains_seg"), Tri |-> Fwd("rt_contains_tri")]),
    Segment |-> Arms(<< >>),
    Tri |-> Arms([Point |-> Fwd("tri_contains_pt"), Rect |-> Fwd("tri_contains_rt")]) ]

dist_to_shape_impl ==
  [ Capsule |-> Arms([Capsule |-> Fwd("cap_cap_dist"), Circle |-> Fwd("cap_circ_dist"),
                      Path |-> Fwd("cap_path_dist"), Poly |-> Fwd("cap_poly_dist"),
                      Rect |-> Fwd("cap_rt_dist"), Segment |-> Fwd("cap_seg_dist")]),
    Circle |-> Arms([Capsule |-> Rev("cap_circ_dist"), Circle |-> Fwd("circ_circ_dist"),
                     Path |-> Fwd("circ_path_dist"), Point |-> Fwd("circ_pt_dist"),
                     Poly |-> Fwd("circ_poly_dist"), Rect |-> Fwd("circ_rt_dist")]),
    Compound |-> [k \in BaseKinds |-> Fwd("QuadTree::dist")],
    Line |-> Arms([Point |-> Fwd("line_pt_dist")]),
    Path |-> Arms([Capsule |-> Rev("cap_path_dist"), Circle |-> Rev("circ_path_dist"),
                   Poly |-> Fwd("path_poly_dist"), Rect |-> Rev("rt_path_dist")]),
    Point |-> Arms([Line |-> Rev("line_pt_dist"), Point |-> Fwd("pt_pt_dist"),
                    Poly |-> Rev("poly_pt_dist"), Rect |-> Fwd("pt_rt_dist"),
                    Segment |-> Fwd("pt_seg_dist")]),
    Poly |-> Arms([Capsule |-> Rev("cap_poly_dist"), Circle |-> Rev("circ_poly_dist"),
                   Path |-> Rev("path_poly_dist"), Point |-> Fwd("poly_pt_dist"),
                   Rect |-> Fwd("poly_rt_dist")]),
    Rect |-> Arms([Capsule |-> Rev("cap_rt_dist"), Circle |-> Rev("circ_rt_dist"),
                   Path |-> Fwd("rt_path_dist"), Point |-> Rev("pt_rt_dist"),
                   Poly |-> Rev("poly_rt_dist"), Rect |-> Fwd("rt_rt_dist"),
                   Segment |-> Fwd("rt_seg_dist")]),
    Segment |-> Arms([Capsule |-> Rev("cap_seg_dist"), Point |-> Rev("pt_seg_dist"),
                      Rect |-> Rev("rt_seg_dist"), Segment |-> Fwd("seg_seg_dist")]),
    Tri |-> Arms(<< >>) ]

\* the functions the arms call whose body is todo!()
TodoBodies == { "line_intersects_seg" }

\* the arm a.op(b) takes
ArmOf(op, ak, bk) ==
  CASE op = "intersects_shape" -> intersects_shape_impl[Base(ak)][Base(bk)]
    [] op = "contains_shape" -> contains_shape_impl[Base(ak)][Base(bk)]
    [] op = "dist_to_shape" -> dist_to_shape_impl[Base(ak)][Base(bk)]

\* a.op(b) reaches a todo!(), in the arm or in the function the arm calls
ReachesTodo(op, ak, bk) == ArmOf(op, ak, bk) = Todo \/ ArmOf(op, ak, bk).f \in TodoBodies

\* the function an arm of intersects_shape calls, applied to its operands
EvalIntersects(f, x, y) ==
  CASE f = "cap_intersects_cap" -> cap_intersects_cap(x, y)
    [] f = "cap_intersects_circ" -> cap_intersects_circ(x, y)
    [] f = "cap_intersects_path" -> cap_intersects_path(x, y)
    [] f = "cap_intersects_poly" -> cap_intersects_poly(x, y)
    [] f = "cap_intersects_rt" -> cap_intersects_rt(x, y)
    [] f = "cap_intersects_tri" -> cap_intersects_tri(x, y)
    [] f = "cap_contains_pt" -> cap_contains_pt(x, PtOf(y))
    [] f = "circ_intersects_circ" -> circ_intersects_circ(x, y)
    [] f = "circ_intersects_path" -> circ_intersects_path(x, y)
    [] f = "circ_intersects_poly" -> circ_intersects_poly(x, y)
    [] f = "circ_intersects_rt" -> circ_intersects_rt(x, y)
    [] f = "circ_intersects_tri" -> circ_intersects_tri(x, y)
    [] f = "circ_contains_pt" -> circ_contains_pt(x, PtOf(y))
    [] f = "line_intersects_line" -> line_intersects_line(x, y)
    [] f = "path_intersects_path" -> path_intersects_path(x, y)
    [] f = "path_intersects_poly" -> path_intersects_poly(x, y)
    [] f = "path_intersects_rt" -> path_intersects_rt(x, y)
    [] f = "poly_contains_pt" -> poly_contains_pt(x, PtOf(y))
    [] f = "poly_intersects_rt" -> poly_intersects_rt(x, y)
    [] f = "RtPrimitive::contains" -> RtContainsPt(x, y)
    [] f = "rt_intersects_rt" -> rt_intersects_rt(x, y)
    [] f = "rt_intersects_seg" -> rt_intersects_seg(x, y)
    [] f = "rt_intersects_tri" -> rt_intersects_tri(x, y)
    [] f = "seg_intersects_seg" -> seg_intersects_seg(x, y)
    [] f = "tri_contains_pt" -> tri_contains_pt(x, PtOf(y))

\* the function an arm of contains_shape calls, applied to its operands
EvalContains(f, x, y) ==
  CASE f = "cap_contains_pt" -> cap_contains_pt(x, PtOf(y))
    [] f = "cap_contains_rt" -> cap_contains_rt(x, y)
    [] f = "circ_contains_pt" -> circ_contains_pt(x, PtOf(y))
    [] f = "circ_contains_rt" -> circ_contains_rt(x, y)
    [] f = "path_contains_rt" -> path_contains_rt(x, y)
    [] f = "poly_contains_cap" -> poly_contains_cap(x, y)
    [] f = "poly_contains_circ" -> poly_contains_circ(x, y)
    [] f = "poly_contains_path" -> poly_contains_path(x, y)
    [] f = "poly_contains_pt" -> poly_contains_pt(x, PtOf(y))
    [] f = "poly_contains_rt" -> poly_contains_rt(x, y)
    [] f = "poly_contains_seg" -> poly_contains_seg(x, y)
    [] f = "rt_contains_cap" -> rt_contains_cap(x, y)
    [] f = "rt_contains_circ" -> rt_contains_circ(x, y)
    [] f = "rt_contains_path" -> rt_contains_path(x, y)
    [] f = "RtPrimitive::contains" -> RtContainsPt(x, y)
    [] f = "rt_contains_poly" -> rt_contains_poly(x, y)
    [] f = "RtPrimitive::contains_rt" -> contains_rt(x, y)
    [] f = "rt_contains_seg" -> rt_contains_seg(x, y)
    [] f = "rt_contains_tri" -> rt_contains_tri(x, y)
    [] f = "tri_contains_pt" -> tri_contains_pt(x, PtOf(y))
    [] f = "tri_contains_rt" -> tri_contains_rt(x, y)

\* the function an arm of dist_to_shape calls, applied to its operands
EvalDist(f, x, y) ==
  CASE f = "cap_cap_dist" -> cap_cap_dist(x, y)
    [] f = "cap_circ_dist" -> cap_circ_dist(x, y)
    [] f = "cap_path_dist" -> cap_path_dist(x, y)
    [] f = "cap_poly_dist" -> cap_poly_dist(x, y)
    [] f = "cap_rt_dist" -> cap_rt_dist(x, y)
    [] f = "cap_seg_dist" -> cap_seg_dist(x, y)
    [] f = "circ_circ_dist" -> circ_circ_dist(x, y)
    [] f = "circ_path_dist" -> circ_path_dist(x, y)
    [] f = "circ_pt_dist" -> circ_pt_dist(x, PtOf(y))
    [] f = "circ_poly_dist" -> circ_poly_dist(x, y)
    [] f = "circ_rt_dist" -> circ_rt_dist(x, y)
    [] f = "line_pt_dist" -> Some(line_pt_dist(x, PtOf(y)))
    [] f = "path_poly_dist" -> path_poly_dist(x, y)
    [] f = "poly_pt_dist" -> poly_pt_dist(x, PtOf(y))
    [] f = "poly_rt_dist" -> poly_rt_dist(x, y)
    [] f = "pt_pt_dist" -> Some(Dist2(PtOf(x), PtOf(y)))
    [] f = "pt_rt_dist" -> pt_rt_dist(x, y)
    [] f = "pt_seg_dist" -> Some(pt_seg_dist(PtOf(x), y))
    [] f = "rt_path_dist" -> rt_path_dist(x, y)
    [] f = "rt_rt_dist" -> rt_rt_dist(x, y)
    [] f = "rt_seg_dist" -> rt_seg_dist(x, y)
    [] f = "seg_seg_dist" -> Some(seg_seg_dist(x, y))

\* shape.rs:110-129 with rect.rs:283-302 and point.rs:132-149: the pairs
\* the shapes kept in a quadtree and the shapes it is asked about reach.
intersects_shape(a, s) ==
  CASE IsRt(a) /\ s.k = "Point" -> RtContainsPt(a, s)
    [] IsRt(a) /\ IsRt(s) -> rt_intersects_rt(a, s)
    [] a.k = "Point" /\ IsRt(s) -> RtContainsPt(s, a)

\* shape.rs:131-150 with rect.rs:304-323
contains_shape(a, s) ==
  CASE IsRt(a) /\ s.k = "Point" -> RtContainsPt(a, s)
    [] IsRt(a) /\ IsRt(s) -> contains_rt(a, s)

\* shape.rs:152-171 with rect.rs:325-343
dist_to_shape(a, s) ==
  CASE IsRt(a) /\ s.k = "Point" -> pt_rt_dist(s, a)
    [] IsRt(a) /\ IsRt(s) -> rt_rt_dist(a, s)

----------------------------------------------------------------------------
(* Filters: query.rs.  Kinds is a bit set, modelled as the set of its bits. *)
ShapeInfo(shape, tag, kinds) == [shape |-> shape, tag |-> tag, kinds |-> kinds]
TagAll == [t |-> "All", tag |-> 0]
TagIs(tag) == [t |-> "Tag", tag |-> tag]
TagExcept(tag) == [t |-> "Except", tag |-> tag]
KindsAll == [t |-> "All", kinds |-> {}]
HasCommon(kinds) == [t |-> "HasCommon", kinds |-> kinds]
Query(tq, kq) == [tq |-> tq, kq |-> kq]
ALL == Query(TagAll, KindsAll)

\* query.rs:37-43
matches_tag_query(s, q) ==
  CASE q.t = "All" -> TRUE
    [] q.t = "Tag" -> q.tag = s.tag
    [] q.t = "Except" -> q.tag # s.tag

\* query.rs:45-50
matches_kinds_query(s, q) ==
  CASE q.t = "All" -> TRUE
    [] q.t = "HasCommon" -> (q.kinds \cap s.kinds) # {}

\* query.rs:53-55
matches_query(s, q) == matches_tag_query(s, q.tq) /\ matches_kinds_query(s, q.kq)

\* query.rs:89-99
decompose_shape(s) ==
  LET shapes == IF s.shape.k = "Compound" THEN s.shape.parts
                ELSE IF s.shape.k \in { "Path", "PathExcl" } THEN caps(s.shape)
                ELSE << s.shape >>
  IN [i \in 1..Len(shapes) |-> ShapeInfo(shapes[i], s.tag, s.kinds)]

\* HashMap::get of query.rs:111, 129, 147: the key has been inserted, and the
\* value of its latest insert
CacheHas(cache, idx) == \E i \in 1..Len(cache) : cache[i].idx = idx
CacheGet(cache, idx) ==
  LET last == CHOOSE i \in 1..Len(cache) :
                /\ cache[i].idx = idx
                /\ \A j \in (i + 1)..Len(cache) : cache[j].idx # idx
  IN cache[last].res

\* HashMap::insert of query.rs:115, 133, 151
CacheInsert(cache, idx, res) == Append(cache, [idx |-> idx, res |-> res])

\* Fault injection for cached_intersects: the predicate is evaluated and
\* inserted without looking the handle up first.
cached_intersects_no_lookup(cache, idx, shape_info, s, q) ==
  IF ~matches_query(shape_info, q) THEN [res |-> FALSE, cache |-> cache]
  ELSE LET res == intersects_shape(shape_info.shape, s)
       IN [res |-> res, cache |-> CacheInsert(cache, idx, res)]

\* query.rs:101-117
cached_intersects(cache, idx, shape_info, s, q) ==
  IF ~matches_query(shape_info, q) THEN [res |-> FALSE, cache |-> cache]
  ELSE IF CacheHas(cache, idx) THEN [res |-> CacheGet(cache, idx), cache |-> cache]
  ELSE LET res == intersects_shape(shape_info.shape, s)
       IN [res |-> res, cache |-> CacheInsert(cache, idx, res)]

\* query.rs:119-135
cached_contains(cache, idx, shape_info, s, q) ==
  IF ~matches_query(shape_info, q) THEN [res |-> FALSE, cache |-> cache]
  ELSE IF CacheHas(cache, idx) THEN [res |-> CacheGet(cache, idx), cache |-> cache]
  ELSE LET res == contains_shape(shape_info.shape, s)
       IN [res |-> res, cache |-> CacheInsert(cache, idx, res)]

\* query.rs:137-153
cached_dist(cache, idx, shape_info, s, q) ==
  IF ~matches_query(shape_info, q) THEN [res |-> None, cache |-> cache]
  ELSE IF CacheHas(cache, idx) THEN [res |-> CacheGet(cache, idx), cache |-> cache]
  ELSE LET res == dist_to_shape(shape_info.shape, s)
       IN [res |-> res, cache |-> CacheInsert(cache, idx, res)]

----------------------------------------------------------------------------
(* The quadtree: quadtree.rs.  A QuadTree value is the record              *)
(* [shapes, free_shapes, nodes, bounds, intersect_cache, contain_cache,    *)
(*  dist_cache]; a cache is the sequence of the inserts made on the map    *)
(* since it was last cleared, each a record [idx, res].                     *)

\* quadtree.rs:23-28
min_opt(a, b) ==
  IF a = None THEN b
  ELSE IF b = None THEN a
  ELSE Some(Min2(Unwrap(a), Unwrap(b)))

UnwrapOr(o, d) == IF o = None THEN d ELSE Unwrap(o)

\* quadtree.rs:48-59
DefaultNode ==
  [intersect |-> << >>, contain |-> << >>,
   bl |-> NO_NODE, br |-> NO_NODE, tr |-> NO_NODE, tl |-> NO_NODE]

IntersectData(shape_idx, tests) == [shape_idx |-> shape_idx, tests |-> tests]

EmptyCache == << >>

\* The quadrant of r a child field names (rect.rs:76-102).
Quadrant(r, f) ==
  CASE f = "bl" -> bl_quadrant(r)
    [] f = "br" -> br_quadrant(r)
    [] f = "tr" -> tr_quadrant(r)
    [] f = "tl" -> tl_quadrant(r)

QuadOrder == << "bl", "br", "tr", "tl" >>

\* Fault injection for ensure_has_bounds: a shape without bounds is given the
\* default rectangle instead of being refused.
bounds_or_default(shape_info) ==
  IF bounds(shape_info.shape) = None THEN Some(rt(0, 0, 0, 0))
  ELSE bounds(shape_info.shape)

RECURSIVE CompoundBoundsFrom(_, _, _)
CompoundBoundsFrom(acc, parts, i) ==
  IF i > Len(parts) THEN acc
  ELSE CompoundBoundsFrom(united(acc, Unwrap(shape_bounds(parts[i]))), parts, i + 1)

\* compound.rs:56-58: the bounds of the compound's own tree, which
\* Compound::default starts at Rt::default() (compound.rs:22-26) and every
\* add_shape unites with the bounds of the shapes added (quadtree.rs:173-177)
compound_bounds(c) == Some(CompoundBoundsFrom(rt(0, 0, 0, 0), c.parts, 1))

\* quadtree.rs:74-76; shape.bounds() is the dispatch of shape.rs:64-83
ensure_has_bounds(shape_info) ==
  IF shape_info.shape.k = "Compound" THEN compound_bounds(shape_info.shape)
  ELSE shape_bounds(shape_info.shape)

\* Fault injection for reset_cache: the caches keep their entries.
reset_cache_keep(qt) == qt

\* quadtree.rs:226-230
reset_cache(qt) ==
  [qt EXCEPT !.intersect_cache = EmptyCache,
             !.contain_cache = EmptyCache,
             !.dist_cache = EmptyCache]

\* Fault injection for rebuild_nodes: the root is re-seeded with every slot of
\* the table, the empty ones included.
rebuild_nodes_all_slots(qt) ==
  LET dead == SelectSeq([i \in 1..Len(qt.shapes) |-> i - 1],
                        LAMBDA h : qt.shapes[h + 1] = None)
      root == [DefaultNode EXCEPT
                 !.intersect = [i \in 1..Len(qt.shapes) |-> IntersectData(i - 1, 0)]]
  IN reset_cache([qt EXCEPT !.nodes = << DefaultNode, root >>,
                            !.free_shapes = dead])

\* quadtree.rs:78-100
rebuild_nodes(qt) ==
  LET live == SelectSeq([i \in 1..Len(qt.shapes) |-> i - 1],
                        LAMBDA h : qt.shapes[h + 1] # None)
      dead == SelectSeq([i \in 1..Len(qt.shapes) |-> i - 1],
                        LAMBDA h : qt.shapes[h + 1] = None)
      root == [DefaultNode EXCEPT
                 !.intersect = [i \in 1..Len(live) |-> IntersectData(live[i], 0)]]
  IN reset_cache([qt EXCEPT !.nodes = << DefaultNode, root >>,
                            !.free_shapes = dead])

\* Fault injection for ensure_children: three nodes are pushed instead of
\* four, and tl is given the index of tr.
ensure_children_three(ns, idx) ==
  IF ns[idx + 1].bl = NO_NODE
  THEN LET n == Len(ns)
       IN [ns EXCEPT ![idx + 1].bl = n, ![idx + 1].br = n + 1,
                     ![idx + 1].tr = n + 2, ![idx + 1].tl = n + 2]
          \o << DefaultNode, DefaultNode, DefaultNode >>
  ELSE ns

\* quadtree.rs:480-491
ensure_children(ns, idx) ==
  IF ns[idx + 1].bl = NO_NODE
  THEN LET n == Len(ns)
       IN [ns EXCEPT ![idx + 1].bl = n, ![idx + 1].br = n + 1,
                     ![idx + 1].tr = n + 2, ![idx + 1].tl = n + 3]
          \o << DefaultNode, DefaultNode, DefaultNode, DefaultNode >>
  ELSE ns

\* Fault injection for PushQuad: a shape goes down into a quadrant only when
\* it contains the quadrant.
PushQuadContainOnly(ns, shape, shape_idx, quad, quad_idx) ==
  IF contains_shape(shape, quad)
  THEN [ns EXCEPT ![quad_idx + 1].intersect = Append(@, IntersectData(shape_idx, 0)),
                  ![quad_idx + 1].contain = Append(@, shape_idx)]
  ELSE ns

\* Fault injection for PushQuad: a shape that intersects the quadrant is put
\* on its contain list without the containment test.
PushQuadContainAll(ns, shape, shape_idx, quad, quad_idx) ==
  IF intersects_shape(shape, quad)
  THEN [ns EXCEPT ![quad_idx + 1].intersect = Append(@, IntersectData(shape_idx, 0)),
                  ![quad_idx + 1].contain = Append(@, shape_idx)]
  ELSE ns

\* quadtree.rs:466-474: one (quad, quad_idx) of the inner loop of maybe_push_down
PushQuad(ns, shape, shape_idx, quad, quad_idx) ==
  IF intersects_shape(shape, quad)
  THEN [ns EXCEPT ![quad_idx + 1].intersect = Append(@, IntersectData(shape_idx, 0)),
                  ![quad_idx + 1].contain =
                      IF contains_shape(shape, quad) THEN Append(@, shape_idx) ELSE @]
  ELSE ns

RECURSIVE PushQuads(_, _, _, _, _, _)
\* quadtree.rs:460-475: the four quadrants in the order bl, br, tr, tl, from k on
PushQuads(ns, shape, shape_idx, idx, r, k) ==
  IF k > Len(QuadOrder) THEN ns
  ELSE PushQuads(PushQuad(ns, shape, shape_idx, Quadrant(r, QuadOrder[k]),
                          ns[idx + 1][QuadOrder[k]]),
                 shape, shape_idx, idx, r, k + 1)

RECURSIVE PushDownFrom(_, _, _, _, _, _)
\* quadtree.rs:455-476: the loop over push_down, from position i on
PushDownFrom(sh, ns, idx, r, push_down, i) ==
  IF i > Len(push_down) THEN ns
  ELSE LET shape == Unwrap(sh[push_down[i].shape_idx + 1]).shape
       IN PushDownFrom(sh, PushQuads(ns, shape, push_down[i].shape_idx, idx, r, 1),
                       idx, r, push_down, i + 1)

\* Fault injection for maybe_push_down: an entry goes down only once its
\* counter is above the threshold.
maybe_push_down_above(sh, ns, idx, r, depth) ==
  IF depth > MAX_DEPTH THEN ns
  ELSE LET push_down == SelectSeq(ns[idx + 1].intersect,
                                  LAMBDA v : v.tests > TEST_THRESHOLD)
           kept == SelectSeq(ns[idx + 1].intersect,
                             LAMBDA v : ~(v.tests > TEST_THRESHOLD))
       IN IF push_down = << >> THEN ns
          ELSE PushDownFrom(sh, ensure_children([ns EXCEPT ![idx + 1].intersect = kept], idx),
                            idx, r, push_down, 1)

\* quadtree.rs:446-478
maybe_push_down(sh, ns, idx, r, depth) ==
  IF depth > MAX_DEPTH THEN ns
  ELSE LET push_down == SelectSeq(ns[idx + 1].intersect,
                                  LAMBDA v : v.tests >= TEST_THRESHOLD)
           kept == SelectSeq(ns[idx + 1].intersect,
                             LAMBDA v : ~(v.tests >= TEST_THRESHOLD))
       IN IF push_down = << >> THEN ns
          ELSE PushDownFrom(sh, ensure_children([ns EXCEPT ![idx + 1].intersect = kept], idx),
                            idx, r, push_down, 1)

\* quadtree.rs:264-269, 322-327, 392-397: some shape of the node's contain
\* list matches the filter
ContainMatches(sh, node, q) ==
  \E i \in 1..Len(node.contain) : matches_query(Unwrap(sh[node.contain[i] + 1]), q)

RECURSIVE InterLoop(_, _, _, _, _, _)
\* quadtree.rs:299-307: the loop over the node's intersect list, from position
\* i on; it stops at the first hit
InterLoop(sh, list, i, cache, s, q) ==
  IF i > Len(list) THEN [hit |-> FALSE, intersect |-> list, cache |-> cache]
  ELSE LET idx == list[i].shape_idx
           c == cached_intersects(cache, idx, Unwrap(sh[idx + 1]), s, q)
           tested == [list EXCEPT ![i].tests = @ + 1]
       IN IF c.res THEN [hit |-> TRUE, intersect |-> tested, cache |-> c.cache]
          ELSE InterLoop(sh, tested, i + 1, c.cache, s, q)

RECURSIVE inter(_, _, _, _, _, _, _, _)
RECURSIVE InterChildren(_, _, _, _, _, _, _, _)
\* quadtree.rs:277-296: the children bl, br, tr, tl in turn, from the k-th on,
\* returning at the first that reports an intersection
InterChildren(sh, st, s, q, idx, r, depth, k) ==
  IF k > Len(QuadOrder) \/ st.res THEN st
  ELSE LET child == st.nodes[idx + 1][QuadOrder[k]]
       IN InterChildren(sh,
            IF child # NO_NODE
            THEN inter(sh, st.nodes, st.cache, s, q, child, Quadrant(r, QuadOrder[k]), depth + 1)
            ELSE st,
            s, q, idx, r, depth, k + 1)

\* quadtree.rs:256-311
inter(sh, ns, cache, s, q, idx, r, depth) ==
  IF ~intersects_shape(s, r) THEN [res |-> FALSE, nodes |-> ns, cache |-> cache]
  ELSE IF ContainMatches(sh, ns[idx + 1], q) THEN [res |-> TRUE, nodes |-> ns, cache |-> cache]
  ELSE LET ch == InterChildren(sh, [res |-> FALSE, nodes |-> ns, cache |-> cache],
                               s, q, idx, r, depth, 1)
       IN IF ch.res THEN ch
          ELSE LET lp == InterLoop(sh, ch.nodes[idx + 1].intersect, 1, ch.cache, s, q)
                   tested == [ch.nodes EXCEPT ![idx + 1].intersect = lp.intersect]
               IN [res |-> lp.hit,
                   nodes |-> maybe_push_down(sh, tested, idx, r, depth),
                   cache |-> lp.cache]

RECURSIVE ContainLoop(_, _, _, _, _, _)
\* quadtree.rs:355-363
ContainLoop(sh, list, i, cache, s, q) ==
  IF i > Len(list) THEN [hit |-> FALSE, intersect |-> list, cache |-> cache]
  ELSE LET idx == list[i].shape_idx
           c == cached_contains(cache, idx, Unwrap(sh[idx + 1]), s, q)
           tested == [list EXCEPT ![i].tests = @ + 1]
       IN IF c.res THEN [hit |-> TRUE, intersect |-> tested, cache |-> c.cache]
          ELSE ContainLoop(sh, tested, i + 1, c.cache, s, q)

RECURSIVE contain(_, _, _, _, _, _, _, _)
RECURSIVE ContainChildren(_, _, _, _, _, _, _, _)
\* quadtree.rs:333-352
ContainChildren(sh, st, s, q, idx, r, depth, k) ==
  IF k > Len(QuadOrder) \/ st.res THEN st
  ELSE LET child == st.nodes[idx + 1][QuadOrder[k]]
       IN ContainChildren(sh,
            IF child # NO_NODE
            THEN contain(sh, st.nodes, st.cache, s, q, child, Quadrant(r, QuadOrder[k]), depth + 1)
            ELSE st,
            s, q, idx, r, depth, k + 1)

\* quadtree.rs:313-367
contain(sh, ns, cache, s, q, idx, r, depth) ==
  IF ~intersects_shape(r, s) THEN [res |-> FALSE, nodes |-> ns, cache |-> cache]
  ELSE IF contains_shape(r, s) /\ ContainMatches(sh, ns[idx + 1], q)
       THEN [res |-> TRUE, nodes |-> ns, cache |-> cache]
  ELSE LET ch == ContainChildren(sh, [res |-> FALSE, nodes |-> ns, cache |-> cache],
                                 s, q, idx, r, depth, 1)
       IN IF ch.res THEN ch
          ELSE LET lp == ContainLoop(sh, ch.nodes[idx + 1].intersect, 1, ch.cache, s, q)
                   tested == [ch.nodes EXCEPT ![idx + 1].intersect = lp.intersect]
               IN [res |-> lp.hit,
                   nodes |-> maybe_push_down(sh, tested, idx, r, depth),
                   cache |-> lp.cache]

RECURSIVE DistLoop(_, _, _, _, _, _, _)
\* quadtree.rs:434-439: every entry is tested, no early exit
DistLoop(sh, list, i, cache, s, q, best) ==
  IF i > Len(list) THEN [best |-> best, intersect |-> list, cache |-> cache]
  ELSE LET idx == list[i].shape_idx
           c == cached_dist(cache, idx, Unwrap(sh[idx + 1]), s, q)
       IN DistLoop(sh, [list EXCEPT ![i].tests = @ + 1], i + 1, c.cache, s, q,
                   min_opt(best, c.res))

RECURSIVE SortByKey(_)
\* quadtree.rs:421: sort_unstable_by_key on at most four elements, which the
\* standard library sorts by insertion (equal keys keep their order)
SortByKey(children) ==
  IF Len(children) <= 1 THEN children
  ELSE LET init == SortByKey(SubSeq(children, 1, Len(children) - 1))
           x == children[Len(children)]
           before == SelectSeq(init, LAMBDA c : c.lb <= x.lb)
           after == SelectSeq(init, LAMBDA c : c.lb > x.lb)
       IN before \o << x >> \o after

\* quadtree.rs:402-420: the existing children with their lower bounds
DistChildrenOf(node, r, b) ==
  LET child_dist(child_rt) ==
        IF b = None THEN 0 ELSE UnwrapOr(rt_rt_dist(child_rt, Unwrap(b)), 0)
      all == [k \in 1..Len(QuadOrder) |->
                [lb |-> child_dist(Quadrant(r, QuadOrder[k])),
                 idx |-> node[QuadOrder[k]],
                 r |-> Quadrant(r, QuadOrder[k])]]
  IN SelectSeq(all, LAMBDA c : c.idx # NO_NODE)

RECURSIVE distance(_, _, _, _, _, _, _, _, _)
RECURSIVE DistChildren(_, _, _, _, _, _, _)
\* quadtree.rs:424-431: the sorted children from position i on
DistChildren(sh, st, s, q, children, i, depth) ==
  IF i > Len(children) THEN st
  ELSE IF st.res # None /\ Unwrap(st.res) < children[i].lb THEN st
  ELSE LET d == distance(sh, st.nodes, st.cache, s, q, children[i].idx, children[i].r,
                         st.res, depth + 1)
       IN DistChildren(sh, [res |-> min_opt(st.res, d.res), nodes |-> d.nodes,
                            cache |-> d.cache],
                       s, q, children, i + 1, depth)

\* quadtree.rs:369-443
distance(sh, ns, cache, s, q, idx, r, best, depth) ==
  LET b == bounds(s)
  IN IF b # None /\ best # None
        /\ UnwrapOr(rt_rt_dist(r, Unwrap(b)), 0) >= Unwrap(best)
     THEN [res |-> best, nodes |-> ns, cache |-> cache]
     ELSE IF b # None /\ contains_rt(r, Unwrap(b)) /\ ContainMatches(sh, ns[idx + 1], q)
     THEN [res |-> Some(0), nodes |-> ns, cache |-> cache]
     ELSE LET children == SortByKey(DistChildrenOf(ns[idx + 1], r, b))
              ch == DistChildren(sh, [res |-> best, nodes |-> ns, cache |-> cache],
                                 s, q, children, 1, depth)
              lp == DistLoop(sh, ch.nodes[idx + 1].intersect, 1, ch.cache, s, q, ch.res)
              tested == [ch.nodes EXCEPT ![idx + 1].intersect = lp.intersect]
          IN [res |-> lp.best,
              nodes |-> maybe_push_down(sh, tested, idx, r, depth),
              cache |-> lp.cache]

\* quadtree.rs:232-238
intersects(qt, s, q) ==
  LET c == reset_cache(qt)
  IN IF c.bounds # None
     THEN LET x == inter(c.shapes, c.nodes, c.intersect_cache, s, q, 1, Unwrap(c.bounds), 0)
          IN [qt |-> [c EXCEPT !.nodes = x.nodes, !.intersect_cache = x.cache],
              res |-> x.res]
     ELSE [qt |-> c, res |-> FALSE]

\* quadtree.rs:240-246
contains(qt, s, q) ==
  LET c == reset_cache(qt)
  IN IF c.bounds # None
     THEN LET x == contain(c.shapes, c.nodes, c.contain_cache, s, q, 1, Unwrap(c.bounds), 0)
          IN [qt |-> [c EXCEPT !.nodes = x.nodes, !.contain_cache = x.cache],
              res |-> x.res]
     ELSE [qt |-> c, res |-> FALSE]

\* quadtree.rs:248-254
dist(qt, s, q) ==
  LET c == reset_cache(qt)
  IN IF c.bounds # None
     THEN LET x == distance(c.shapes, c.nodes, c.dist_cache, s, q, 1, Unwrap(c.bounds),
                            None, 0)
          IN [qt |-> [c EXCEPT !.nodes = x.nodes, !.dist_cache = x.cache],
              res |-> x.res]
     ELSE [qt |-> c, res |-> None]

----------------------------------------------------------------------------
(* Construction, insertion, deletion.  A Result is [ok, ...]: ok = FALSE   *)
(* is Err(Error::NoBounds).                                                *)

RECURSIVE UnitedFrom(_, _, _)
\* quadtree.rs:104-107, 173-177: the running union of the constituents' bounds
\* (every shapes[i] has bounds)
UnitedFrom(acc, shapes, i) ==
  IF i > Len(shapes) THEN acc
  ELSE LET b == Unwrap(ensure_has_bounds(shapes[i]))
       IN UnitedFrom(Some(IF acc = None THEN b ELSE united(Unwrap(acc), b)), shapes, i + 1)

\* the `?` of quadtree.rs:105 and 175
SomeUnbounded(shapes) == \E i \in 1..Len(shapes) : ensure_has_bounds(shapes[i]) = None

\* quadtree.rs:102-129
new(shapes) ==
  IF SomeUnbounded(shapes) THEN [ok |-> FALSE, qt |-> << >>]
  ELSE [ok |-> TRUE,
        qt |-> [shapes |-> [i \in 1..Len(shapes) |-> Some(shapes[i])],
                nodes |-> << DefaultNode,
                             [DefaultNode EXCEPT !.intersect =
                                [i \in 1..Len(shapes) |-> IntersectData(i - 1, 0)]] >>,
                bounds |-> UnitedFrom(None, shapes, 1),
                free_shapes |-> << >>,
                intersect_cache |-> EmptyCache,
                contain_cache |-> EmptyCache,
                dist_cache |-> EmptyCache]]

\* quadtree.rs:131-141
with_bounds(r) ==
  [shapes |-> << >>,
   nodes |-> << DefaultNode, DefaultNode >>,
   bounds |-> Some(r),
   free_shapes |-> << >>,
   intersect_cache |-> EmptyCache,
   contain_cache |-> EmptyCache,
   dist_cache |-> EmptyCache]

\* Fault injection for alloc_slot: the free list is ignored and every
\* constituent gets a new slot at the end of the table.
alloc_slot_append(qt, shape) ==
  [qt |-> [qt EXCEPT !.shapes = Append(@, Some(shape))],
   shape_idx |-> Len(qt.shapes)]

\* quadtree.rs:183-189: the slot of one constituent, a popped free slot or a
\* new one at the end of the table
alloc_slot(qt, shape) ==
  IF qt.free_shapes # << >>
  THEN LET shape_idx == qt.free_shapes[Len(qt.free_shapes)]
       IN [qt |-> [qt EXCEPT !.free_shapes = SubSeq(@, 1, Len(@) - 1),
                             !.shapes[shape_idx + 1] = Some(shape)],
           shape_idx |-> shape_idx]
  ELSE [qt |-> [qt EXCEPT !.shapes = Append(@, Some(shape))],
        shape_idx |-> Len(qt.shapes)]

RECURSIVE InsertFrom(_, _, _, _, _)
\* quadtree.rs:182-194: the insertion loop from constituent i on
InsertFrom(qt, shapes, i, bounds_changed, shape_idxs) ==
  IF i > Len(shapes) THEN [qt |-> qt, shape_idxs |-> shape_idxs]
  ELSE LET a == alloc_slot(qt, shapes[i])
           rooted == IF ~bounds_changed
                     THEN [a.qt EXCEPT !.nodes[2].intersect =
                             Append(@, IntersectData(a.shape_idx, 0))]
                     ELSE a.qt
       IN InsertFrom(rooted, shapes, i + 1, bounds_changed, Append(shape_idxs, a.shape_idx))

Err == [ok |-> FALSE, shape_idxs |-> << >>]
Ok(shape_idxs) == [ok |-> TRUE, shape_idxs |-> shape_idxs]

\* Fault injection for add_shape: the slots are allocated before the bounds
\* of the constituents are looked at.
add_shape_alloc_first(qt, s) ==
  LET shapes == decompose_shape(s)
      early == InsertFrom(qt, shapes, 1, TRUE, << >>)
  IN IF SomeUnbounded(shapes) THEN [qt |-> early.qt, ret |-> Err]
     ELSE LET new_bounds == UnitedFrom(qt.bounds, shapes, 1)
              bounds_changed == new_bounds # qt.bounds
              ins == InsertFrom(qt, shapes, 1, bounds_changed, << >>)
          IN [qt |-> IF bounds_changed
                     THEN rebuild_nodes([ins.qt EXCEPT !.bounds = new_bounds])
                     ELSE ins.qt,
              ret |-> Ok(ins.shape_idxs)]

\* quadtree.rs:168-202
add_shape(qt, s) ==
  LET shapes == decompose_shape(s)
  IN IF SomeUnbounded(shapes) THEN [qt |-> qt, ret |-> Err]
     ELSE LET new_bounds == UnitedFrom(qt.bounds, shapes, 1)
              bounds_changed == new_bounds # qt.bounds
              ins == InsertFrom(qt, shapes, 1, bounds_changed, << >>)
          IN [qt |-> IF bounds_changed
                     THEN rebuild_nodes([ins.qt EXCEPT !.bounds = new_bounds])
                     ELSE ins.qt,
              ret |-> Ok(ins.shape_idxs)]

\* Fault injection for remove_shape: the slot is taken out of the table the
\* way Vec::swap_remove does, the last slot moving into its place.
remove_shape_swap(qt, s) ==
  IF ~(s < Len(qt.shapes)) THEN qt
  ELSE IF qt.shapes[s + 1] = None THEN qt
  ELSE LET n == Len(qt.shapes)
           swept(node) ==
             [node EXCEPT !.intersect = SelectSeq(@, LAMBDA v : v.shape_idx # s),
                          !.contain = SelectSeq(@, LAMBDA v : v # s)]
       IN [qt EXCEPT !.shapes = [i \in 1..(n - 1) |->
                                   IF i = s + 1 THEN qt.shapes[n] ELSE qt.shapes[i]],
                     !.nodes = [i \in 1..Len(qt.nodes) |-> swept(qt.nodes[i])]]

\* Fault injection for remove_shape: only the root's lists are swept, the
\* other nodes keep their entries for the handle.
remove_shape_root_only(qt, s) ==
  IF ~(s < Len(qt.shapes)) THEN qt
  ELSE IF qt.shapes[s + 1] = None THEN qt
  ELSE [qt EXCEPT !.shapes[s + 1] = None,
                  !.nodes[2].intersect = SelectSeq(@, LAMBDA v : v.shape_idx # s),
                  !.nodes[2].contain = SelectSeq(@, LAMBDA v : v # s),
                  !.free_shapes = Append(@, s)]

\* Fault injection for remove_shape: the test for an already empty slot is
\* left out, so the handle is pushed onto the free list again.
remove_shape_no_guard(qt, s) ==
  IF ~(s < Len(qt.shapes)) THEN qt
  ELSE LET swept(node) ==
             [node EXCEPT !.intersect = SelectSeq(@, LAMBDA v : v.shape_idx # s),
                          !.contain = SelectSeq(@, LAMBDA v : v # s)]
       IN [qt EXCEPT !.shapes[s + 1] = None,
                     !.nodes = [i \in 1..Len(qt.nodes) |-> swept(qt.nodes[i])],
                     !.free_shapes = Append(@, s)]

\* quadtree.rs:204-219
remove_shape(qt, s) ==
  IF ~(s < Len(qt.shapes)) THEN qt
  ELSE IF qt.shapes[s + 1] = None THEN qt
  ELSE LET swept(node) ==
             [node EXCEPT !.intersect = SelectSeq(@, LAMBDA v : v.shape_idx # s),
                          !.contain = SelectSeq(@, LAMBDA v : v # s)]
       IN [qt EXCEPT !.shapes[s + 1] = None,
                     !.nodes = [i \in 1..Len(qt.nodes) |-> swept(qt.nodes[i])],
                     !.free_shapes = Append(@, s)]

----------------------------------------------------------------------------
(* What a query is compared with: the pairwise predicates of the shape     *)
(* algebra, applied to the live shapes one by one (the brute-force loops   *)
(* of tests::quadtree_tri, quadtree_poly, quadtree_poly2).                 *)

\* the occupied slots of the shape table (QuadTree::shapes, quadtree.rs:153-155)
Live(t) == { h \in 0..(Len(t.shapes) - 1) : t.shapes[h + 1] # None }
InfoAt(t, h) == Unwrap(t.shapes[h + 1])
Matching(t, q) == { h \in Live(t) : matches_query(InfoAt(t, h), q) }

AnyIntersects(t, s, q) == \E h \in Matching(t, q) : intersects_shape(InfoAt(t, h).shape, s)
AnyContains(t, s, q) == \E h \in Matching(t, q) : contains_shape(InfoAt(t, h).shape, s)
MinDist(t, s, q) ==
  LET ds == { dist_to_shape(InfoAt(t, h).shape, s) : h \in Matching(t, q) } \ { None }
  IN IF ds = {} THEN None
     ELSE CHOOSE d \in ds : \A e \in ds : Unwrap(d) <= Unwrap(e)

Subdivided(t) == Len(t.nodes) > 2
HasContainEntry(t) == \E n \in 1..Len(t.nodes) : t.nodes[n].contain # << >>

\* the shape indices a node's lists mention
Mentioned(node) ==
  { node.intersect[i].shape_idx : i \in 1..Len(node.intersect) }
    \cup { node.contain[i] : i \in 1..Len(node.contain) }
MentionedIn(t) == UNION { Mentioned(t.nodes[n]) : n \in 1..Len(t.nodes) }

SeqToSet(seq) == { seq[i] : i \in 1..Len(seq) }

----------------------------------------------------------------------------
(* The state machine: one tree, driven through its public interface.       *)
VARIABLES
  qt,            \* the QuadTree
  ret,           \* the last public call: its name, argument and what it returned
  removedSince,  \* the handles remove_shape cleared since the last add_shape
                 \* that inserted a constituent, oldest first
  gone,          \* the handles remove_shape cleared and add_shape has not
                 \* handed out again
  nadds, nqueries, nremoves,   \* calls made so far
  tw,            \* the pair of trees of SpecTwin
  call           \* the last call of the shape algebra or of a constructor
                 \* helper: its name, operands and outcome

vars == << qt, ret, removedSince, gone, nadds, nqueries, nremoves, tw, call >>

Ret(op, arg, ok, shape_idxs, hit, d) ==
  [op |-> op, arg |-> arg, ok |-> ok, shape_idxs |-> shape_idxs, hit |-> hit, dist |-> d]

\* Shapes and filters the calls are made with.
RectA == rt(U(0), U(0), U(4), U(4))
RectAExcl == rt_excl(U(0), U(0), U(4), U(4))
RectB == rt(U(2), U(2), U(6), U(6))
RectC == rt(U(0), U(0), U(2), U(2))
EmptyRect == rt_excl(U(1), U(1), U(1), U(3))

\* add_shape: a rectangle that grows the bounds, a line (no bounds), a compound
\* of two (one of them the empty set) and a compound of none
AddInputs ==
  { ShapeInfo(RectB, 2, {0, 1}),
    ShapeInfo(line, 1, {0}),
    ShapeInfo(compound(<< RectC, EmptyRect >>), 1, {1}),
    ShapeInfo(compound(<< >>), 2, {0}) }

\* QuadTree::new
InitInputs ==
  { << >>,
    << ShapeInfo(RectA, 1, {0}), ShapeInfo(RectAExcl, 2, {1}) >> }

\* the (shape, filter) pairs the query calls are made with
QueryInputs ==
  { << pt(U(1), U(1)), ALL >>,
    << EmptyRect, Query(TagExcept(1), HasCommon({1})) >> }

Handles == 0..2

NoTwin == << >>

NoCall == << >>

Init ==
  /\ \/ \E shapes \in InitInputs : qt = new(shapes).qt
     \/ qt = with_bounds(RectA)
  /\ ret = Ret("new", None, TRUE, << >>, FALSE, None)
  /\ removedSince = << >>
  /\ gone = {}
  /\ nadds = 0
  /\ nqueries = 0
  /\ nremoves = 0
  /\ tw = NoTwin
  /\ call = NoCall

AddShape(s) ==
  /\ nadds < MaxAdds
  /\ LET x == add_shape(qt, s)
         inserted == x.ret.ok /\ x.ret.shape_idxs # << >>
     IN /\ qt' = x.qt
        /\ ret' = Ret("add_shape", Some(s), x.ret.ok, x.ret.shape_idxs, FALSE, None)
        /\ removedSince' = IF inserted THEN << >> ELSE removedSince
        /\ gone' = gone \ SeqToSet(x.ret.shape_idxs)
  /\ nadds' = nadds + 1
  /\ UNCHANGED << nqueries, nremoves, tw, call >>

RemoveShape(h) ==
  /\ nremoves < MaxRemoves
  /\ qt' = remove_shape(qt, h)
  /\ ret' = Ret("remove_shape", Some(h), TRUE, << >>, FALSE, None)
  /\ removedSince' = IF h \in Live(qt) THEN Append(removedSince, h) ELSE removedSince
  /\ gone' = IF h \in Live(qt) THEN gone \cup { h } ELSE gone
  /\ nremoves' = nremoves + 1
  /\ UNCHANGED << nadds, nqueries, tw, call >>

Intersects(s, q) ==
  /\ nqueries < MaxQueries
  /\ LET x == intersects(qt, s, q)
     IN /\ qt' = x.qt
        /\ ret' = Ret("intersects", None, TRUE, << >>, x.res, None)
  /\ nqueries' = nqueries + 1
  /\ UNCHANGED << removedSince, gone, nadds, nremoves, tw, call >>

Contains(s, q) ==
  /\ nqueries < MaxQueries
  /\ LET x == contains(qt, s, q)
     IN /\ qt' = x.qt
        /\ ret' = Ret("contains", None, TRUE, << >>, x.res, None)
  /\ nqueries' = nqueries + 1
  /\ UNCHANGED << removedSince, gone, nadds, nremoves, tw, call >>

Dist(s, q) ==
  /\ nqueries < MaxQueries
  /\ LET x == dist(qt, s, q)
     IN /\ qt' = x.qt
        /\ ret' = Ret("dist", None, TRUE, << >>, FALSE, x.res)
  /\ nqueries' = nqueries + 1
  /\ UNCHANGED << removedSince, gone, nadds, nremoves, tw, call >>

Next ==
  \/ \E s \in AddInputs : AddShape(s)
  \/ \E h \in Handles : RemoveShape(h)
  \/ \E i \in QueryInputs : Intersects(i[1], i[2])
  \/ \E i \in QueryInputs : Contains(i[1], i[2])
  \/ \E i \in QueryInputs : Dist(i[1], i[2])

Spec == Init /\ [][Next]_vars

----------------------------------------------------------------------------
\* Query shapes and filters every reachable tree is asked about.
ProbeShapes ==
  { pt(U(1), U(1)), pt(U(2), U(2)), pt(U(4), U(4)), pt(U(5), U(5)),
    rt(U(1), U(1), U(3), U(3)), rt(U(4), U(4), U(5), U(5)),
    rt_excl(U(2), U(0), U(4), U(2)), rt_excl(U(4), U(0), U(5), U(2)),
    EmptyRect, rt_excl(U(3), U(3), U(3), U(3)) }
ProbeQueries ==
  { ALL, Query(TagIs(1), KindsAll), Query(TagExcept(1), HasCommon({1})),
    Query(TagAll, HasCommon({0})) }

C2_ContainsIsAnyLive ==
  \A s \in ProbeShapes, q \in ProbeQueries :
    contains(qt, s, q).res = AnyContains(qt, s, q)

\* C3: in every reachable tree, dist(s, q) is the least dist_to_shape(s) over
\* the live shapes matching q, None when none of them yields a distance.
C3_DistIsMinLive ==
  \A s \in ProbeShapes, q \in ProbeQueries :
    dist(qt, s, q).res = MinDist(qt, s, q)

\* the step is an add_shape call
IsAdd == nadds' = nadds + 1
\* the constituents the add_shape call of the step was made with
AddedParts == decompose_shape(Unwrap(ret'.arg))

\* C4: a query that filters out the shapes a bounds-growing add_shape inserts
\* gives the same answer on the tree before the call and on the rebuilt tree
\* after it.
C4_SameAnswerAcrossRebuild ==
  [][ (IsAdd /\ ret'.ok /\ qt'.bounds # qt.bounds) =>
        \A s \in ProbeShapes, q \in ProbeQueries :
          (\A i \in 1..Len(AddedParts) : ~matches_query(AddedParts[i], q)) =>
            /\ intersects(qt, s, q).res = intersects(qt', s, q).res
            /\ contains(qt, s, q).res = contains(qt', s, q).res
            /\ dist(qt, s, q).res = dist(qt', s, q).res ]_vars

\* C5: a handle remove_shape cleared stays an empty slot that no node list
\* mentions until add_shape hands it out again, node lists mention live slots
\* only, and every positive answer of a query is owed to a live matching shape.
C5_RemovedStaysOut ==
  /\ \A h \in gone : /\ h < Len(qt.shapes)
                     /\ qt.shapes[h + 1] = None
                     /\ h \notin MentionedIn(qt)
  /\ MentionedIn(qt) \subseteq Live(qt)
  /\ \A s \in { pt(U(1), U(1)), rt(U(1), U(1), U(3), U(3)), EmptyRect },
        q \in { ALL, Query(TagIs(1), KindsAll) } :
       /\ intersects(qt, s, q).res => AnyIntersects(qt, s, q)
       /\ contains(qt, s, q).res => AnyContains(qt, s, q)
       /\ dist(qt, s, q).res # None => Matching(qt, q) # {}

\* C5 witness: a bounds-growing add_shape has rebuilt a tree that still has a
\* removed slot, next to live shapes.
C5_Witness ==
  /\ ret.op = "add_shape" /\ ret.ok
  /\ qt.bounds = Some(united(RectA, RectB))
  /\ gone # {} /\ Live(qt) # {}

\* C7 (as stated): the first handle of the next add_shape that inserts a
\* constituent is h, for every handle h removed since the last such add_shape.
C7_ReusesEveryRemoved ==
  [][ (IsAdd /\ ret'.ok /\ ret'.shape_idxs # << >>) =>
        \A i \in 1..Len(removedSince) : ret'.shape_idxs[1] = removedSince[i] ]_vars

\* C7 (amended): the first handle of the next add_shape that inserts a
\* constituent is the handle removed last; a handle removed before another
\* removal is not the one handed out first.
C7_ReusesLastRemoved ==
  [][ (IsAdd /\ ret'.ok /\ ret'.shape_idxs # << >> /\ removedSince # << >>) =>
        ret'.shape_idxs[1] = removedSince[Len(removedSince)] ]_vars

\* C7 witness: after a removal, a bounds-growing add_shape has put its shape
\* into the freed slot (the table has not grown).
C7_Witness ==
  /\ ret.op = "add_shape" /\ ret.ok /\ ret.shape_idxs # << >>
  /\ nremoves > 0 /\ removedSince = << >>
  /\ qt.bounds = Some(united(RectA, RectB))
  /\ Len(qt.shapes) = 2

\* C8: an add_shape call that returns Err leaves the tree as it was: shape
\* table, free list, node array, bounds and caches.
C8_FailedAddChangesNothing ==
  [][ (IsAdd /\ ~ret'.ok) => qt' = qt ]_vars

\* C8 witness: add_shape has failed on a subdivided tree with a free slot and
\* a filled cache.
C8_Witness ==
  /\ ret.op = "add_shape" /\ ~ret.ok
  /\ Subdivided(qt) /\ qt.free_shapes # << >>
  /\ qt.dist_cache # EmptyCache

\* C9: add_shape returns Err exactly when a constituent has no bounds; else
\* it returns one handle per constituent, each of them a slot that was not
\* live, no two the same, and they are what the call adds to the live slots.
C9_ErrIffUnbounded ==
  [][ IsAdd =>
        LET unbounded == \E i \in 1..Len(AddedParts) : bounds(AddedParts[i].shape) = None
            idxs == ret'.shape_idxs
        IN /\ ret'.ok = ~unbounded
           /\ ret'.ok =>
                /\ Len(idxs) = Len(AddedParts)
                /\ \A i \in 1..Len(idxs) : idxs[i] \notin Live(qt)
                /\ \A i, j \in 1..Len(idxs) : i # j => idxs[i] # idxs[j]
                /\ Live(qt') = Live(qt) \cup SeqToSet(idxs) ]_vars

\* C9 witness: add_shape of a compound of two has returned two handles.
C9_Witness ==
  /\ ret.op = "add_shape" /\ ret.ok
  /\ Len(ret.shape_idxs) = 2
  /\ Len(decompose_shape(Unwrap(ret.arg))) = 2
  /\ nremoves > 0 /\ gone = {}

\* C10: a live slot keeps its ShapeInfo through every call but the
\* remove_shape of its own handle, and add_shape puts each constituent into
\* the slot it returns, which was not live.
C10_HandlesStable ==
  [][ /\ \A h \in Live(qt) :
           \/ ret'.op = "remove_shape" /\ ret'.arg = Some(h)
           \/ h < Len(qt'.shapes) /\ qt'.shapes[h + 1] = qt.shapes[h + 1]
      /\ (IsAdd /\ ret'.ok) =>
           \A i \in 1..Len(ret'.shape_idxs) :
             /\ ret'.shape_idxs[i] \notin Live(qt)
             /\ ret'.shape_idxs[i] < Len(qt'.shapes)
             /\ qt'.shapes[ret'.shape_idxs[i] + 1] = Some(AddedParts[i]) ]_vars

\* C10 witness: a handle has been removed after an add_shape, next to a slot
\* that stays live.
C10_Witness ==
  /\ ret.op = "remove_shape" /\ gone # {}
  /\ nadds > 0 /\ Cardinality(Live(qt)) >= 2

----------------------------------------------------------------------------
(* Two trees side by side.  Both are built from the same shapes and go      *)
(* through the same calls; tree b also takes add_shape calls for shapes     *)
(* that the filter tw.q rejects.  tw.pairs lists, for every shape the two   *)
(* trees share, its handle in a and its handle in b.                        *)

Twin(a, b, q, pairs, changes, queries) ==
  [a |-> a, b |-> b, q |-> q, pairs |-> pairs, changes |-> changes, queries |-> queries]

TwinFrame == UNCHANGED << qt, ret, removedSince, gone, nadds, nqueries, nremoves, call >>

TwinInit ==
  /\ qt = with_bounds(RectA)
  /\ ret = Ret("new", None, TRUE, << >>, FALSE, None)
  /\ removedSince = << >>
  /\ gone = {}
  /\ nadds = 0
  /\ nqueries = 0
  /\ nremoves = 0
  /\ call = NoCall
  /\ \E shapes \in InitInputs, q \in ProbeQueries :
       tw = Twin(new(shapes).qt, new(shapes).qt, q,
                 [i \in 1..Len(shapes) |-> << i - 1, i - 1 >>], 0, 0)

\* add_shape(s) on both trees
TwinAddBoth(s) ==
  /\ tw.changes < MaxTwinChanges
  /\ LET x == add_shape(tw.a, s)
         y == add_shape(tw.b, s)
     IN tw' = [tw EXCEPT !.a = x.qt, !.b = y.qt,
                         !.pairs = @ \o [i \in 1..Len(x.ret.shape_idxs) |->
                                           << x.ret.shape_idxs[i], y.ret.shape_idxs[i] >>],
                         !.changes = @ + 1]
  /\ TwinFrame

\* add_shape(s) on tree b alone, for a shape no constituent of which matches
\* the filter
TwinAddExtra(s) ==
  /\ tw.changes < MaxTwinChanges
  /\ \A i \in 1..Len(decompose_shape(s)) : ~matches_query(decompose_shape(s)[i], tw.q)
  /\ tw' = [tw EXCEPT !.b = add_shape(tw.b, s).qt, !.changes = @ + 1]
  /\ TwinFrame

\* remove_shape of the i-th shared shape on both trees
TwinRemoveBoth(i) ==
  /\ tw.changes < MaxTwinChanges
  /\ i \in 1..Len(tw.pairs)
  /\ tw' = [tw EXCEPT !.a = remove_shape(tw.a, tw.pairs[i][1]),
                      !.b = remove_shape(tw.b, tw.pairs[i][2]),
                      !.pairs = SubSeq(@, 1, i - 1) \o SubSeq(@, i + 1, Len(@)),
                      !.changes = @ + 1]
  /\ TwinFrame

TwinIntersects(s, q) ==
  /\ tw.queries < MaxTwinQueries
  /\ tw' = [tw EXCEPT !.a = intersects(tw.a, s, q).qt, !.b = intersects(tw.b, s, q).qt,
                      !.queries = @ + 1]
  /\ TwinFrame

TwinContains(s, q) ==
  /\ tw.queries < MaxTwinQueries
  /\ tw' = [tw EXCEPT !.a = contains(tw.a, s, q).qt, !.b = contains(tw.b, s, q).qt,
                      !.queries = @ + 1]
  /\ TwinFrame

TwinDist(s, q) ==
  /\ tw.queries < MaxTwinQueries
  /\ tw' = [tw EXCEPT !.a = dist(tw.a, s, q).qt, !.b = dist(tw.b, s, q).qt,
                      !.queries = @ + 1]
  /\ TwinFrame

TwinNext ==
  \/ \E s \in AddInputs : TwinAddBoth(s)
  \/ \E s \in AddInputs : TwinAddExtra(s)
  \/ \E i \in 1..3 : TwinRemoveBoth(i)
  \/ \E i \in QueryInputs : TwinIntersects(i[1], i[2])
  \/ \E i \in QueryInputs : TwinContains(i[1], i[2])
  \/ \E i \in QueryInputs : TwinDist(i[1], i[2])

SpecTwin == TwinInit /\ [][TwinNext]_vars

\* C6: two trees that went through the same calls and differ only in shapes
\* the filter tw.q rejects answer intersects, contains and dist under tw.q
\* alike.
C6_FilteredOutShapesDoNotCount ==
  \A s \in ProbeShapes :
    /\ intersects(tw.a, s, tw.q).res = intersects(tw.b, s, tw.q).res
    /\ contains(tw.a, s, tw.q).res = contains(tw.b, s, tw.q).res
    /\ dist(tw.a, s, tw.q).res = dist(tw.b, s, tw.q).res

----------------------------------------------------------------------------
\* the tree's bounds contain the bounds of every live shape
BoundsCoverLive(t) ==
  \A h \in Live(t) :
    /\ t.bounds # None
    /\ contains_rt(Unwrap(t.bounds), Unwrap(bounds(InfoAt(t, h).shape)))

\* the root node Node::rebuild_nodes leaves behind: every live slot, in slot
\* order, with a fresh counter
FreshRoot(t) ==
  LET n == Len(t.shapes)
      F[i \in 0..n] ==
        IF i = 0 THEN << >>
        ELSE IF t.shapes[i] # None THEN Append(F[i - 1], IntersectData(i - 1, 0))
        ELSE F[i - 1]
  IN [DefaultNode EXCEPT !.intersect = F[n]]

\* C11: the bounds contain the bounds of every live shape before and after
\* every call; a successful add_shape sets them to their union with the
\* bounds of the constituents and no other call changes them; an add_shape
\* that changes the bounds leaves a two-node array whose root lists every
\* live slot with tests = 0, and one that does not leaves every node as it
\* was but for the root, which gets one new entry per constituent at its end.
C11_BoundsCoverAndGrow ==
  [][ /\ BoundsCoverLive(qt) /\ BoundsCoverLive(qt')
      /\ ~(IsAdd /\ ret'.ok) => qt'.bounds = qt.bounds
      /\ (IsAdd /\ ret'.ok) =>
           /\ qt'.bounds = UnitedFrom(qt.bounds, AddedParts, 1)
           /\ qt.bounds # None => contains_rt(Unwrap(qt'.bounds), Unwrap(qt.bounds))
           /\ qt'.bounds # qt.bounds => qt'.nodes = << DefaultNode, FreshRoot(qt') >>
           /\ qt'.bounds = qt.bounds =>
                qt'.nodes = [qt.nodes EXCEPT ![2].intersect =
                               @ \o [i \in 1..Len(ret'.shape_idxs) |->
                                       IntersectData(ret'.shape_idxs[i], 0)]] ]_vars

\* C11 witness: an add_shape of two constituents inside the bounds has
\* appended them to the root of a subdivided tree.
C11_Witness ==
  /\ ret.op = "add_shape" /\ ret.ok /\ Len(ret.shape_idxs) = 2
  /\ qt.bounds = Some(RectA)
  /\ Subdivided(qt)
  /\ Len(qt.nodes[2].intersect) >= 2

----------------------------------------------------------------------------
\* the step is a query: intersects, contains or dist
IsQuery == nqueries' = nqueries + 1
\* the step is a remove_shape call, and the handle it was made with
IsRemove == nremoves' = nremoves + 1
RemovedHandle == Unwrap(ret'.arg)

\* the free list holds the indices of the empty slots, each of them once
FreeListExact(t) ==
  /\ SeqToSet(t.free_shapes) = (0..(Len(t.shapes) - 1)) \ Live(t)
  /\ \A i, j \in 1..Len(t.free_shapes) : i # j => t.free_shapes[i] # t.free_shapes[j]

\* C30: before and after every call the free list holds exactly the indices
\* of the empty slots of the shape table, each once; remove_shape of a handle
\* that is not live (already removed, or beyond the table) changes nothing;
\* no call shortens the shape table; a query leaves the shape table, the free
\* list and the bounds as they were.
C30_FreeListConsistent ==
  [][ /\ FreeListExact(qt) /\ FreeListExact(qt')
      /\ (IsRemove /\ RemovedHandle \notin Live(qt)) => qt' = qt
      /\ Len(qt'.shapes) >= Len(qt.shapes)
      /\ IsQuery => /\ qt'.shapes = qt.shapes
                    /\ qt'.free_shapes = qt.free_shapes
                    /\ qt'.bounds = qt.bounds ]_vars

\* C30 witness: a handle has been removed twice in a row, the second call
\* finding the slot empty, on a tree that has been queried.
C30_Witness ==
  /\ ret.op = "remove_shape" /\ nremoves = 2 /\ nadds = 0 /\ nqueries > 0
  /\ removedSince = << Unwrap(ret.arg) >>
  /\ qt.free_shapes = << Unwrap(ret.arg) >>
  /\ Live(qt) # {}

\* the handles of a node's intersect list, in list order
IntersectIdxs(node) == [i \in 1..Len(node.intersect) |-> node.intersect[i].shape_idx]

\* no element occurs twice in seq
NoRepeat(seq) == \A i, j \in 1..Len(seq) : i # j => seq[i] # seq[j]

\* C29: in every reachable state every shape index in the intersect or the
\* contain list of any node is an occupied slot of the shape table, and no
\* node's intersect list names a handle twice.
C29_ListsNameOccupiedSlots ==
  \A n \in 1..Len(qt.nodes) :
    /\ \A h \in Mentioned(qt.nodes[n]) : h < Len(qt.shapes) /\ qt.shapes[h + 1] # None
    /\ NoRepeat(IntersectIdxs(qt.nodes[n]))

\* C29 witness: remove_shape(0) was the last call, right after the fourth
\* query of a tree built by new: every one of the four queries tested the
\* first root entry, handle 0, so the fourth pushed it down and the removal
\* took it out of the children's lists; the other shape is still live.
C29_Witness ==
  /\ ret.op = "remove_shape" /\ ret.arg = Some(0) /\ gone = { 0 }
  /\ nqueries = TEST_THRESHOLD /\ nadds = 0 /\ nremoves = 1
  /\ Subdivided(qt) /\ Live(qt) # {}

RECURSIVE NodeRects(_, _, _)
\* the nodes of the subtree of node idx, each with its rectangle (the walk of
\* rts_internal, quadtree.rs:157-166)
NodeRects(t, idx, r) ==
  IF idx = NO_NODE THEN {}
  ELSE { << idx, r >> }
         \cup UNION { NodeRects(t, t.nodes[idx + 1][QuadOrder[k]], Quadrant(r, QuadOrder[k])) :
                        k \in 1..Len(QuadOrder) }

\* every point of the closed rectangle r lies in the rectangle a: inside or
\* on the outline of a closed a, strictly inside an open a
CoversRect(a, r) ==
  IF a.k = "Rect"
  THEN a.l <= r.l /\ r.r <= a.r /\ a.b <= r.b /\ r.t <= a.t
  ELSE a.l < r.l /\ r.r < a.r /\ a.b < r.b /\ r.t < a.t

\* C26: in every reachable state every index on the contain list of a node
\* is a live slot whose shape contains the node's rectangle, and the root's
\* contain list is empty.
C26_ContainListSound ==
  /\ qt.nodes[2].contain = << >>
  /\ qt.bounds = None => ~HasContainEntry(qt)
  /\ qt.bounds # None =>
       \A nr \in NodeRects(qt, 1, Unwrap(qt.bounds)) :
         \A i \in 1..Len(qt.nodes[nr[1] + 1].contain) :
           LET h == qt.nodes[nr[1] + 1].contain[i]
           IN /\ h \in Live(qt)
              /\ IsRt(InfoAt(qt, h).shape)
              /\ CoversRect(InfoAt(qt, h).shape, nr[2])

\* C26 witness: on a tree built by new and subdivided since, handle 0, which
\* was on the contain lists of the root's children, has been removed, and an
\* add_shape inside the bounds has put another shape into slot 0; handle 1
\* is still on the root's list, so the subdivision was owed to handle 0.
C26_Witness ==
  /\ ret.op = "add_shape" /\ ret.ok /\ ret.shape_idxs # << >> /\ ret.shape_idxs[1] = 0
  /\ nadds = 1 /\ nremoves = 1
  /\ Subdivided(qt) /\ qt.bounds = Some(RectA)
  /\ \E i \in 1..Len(qt.nodes[2].intersect) : qt.nodes[2].intersect[i].shape_idx = 1

\* the handles of the inserts made on a cache, in the order of the inserts
CacheKeys(cache) == [i \in 1..Len(cache) |-> cache[i].idx]

\* the cache the top-level query op fills
CacheOf(t, op) ==
  CASE op = "intersects" -> t.intersect_cache
    [] op = "contains" -> t.contain_cache
    [] op = "dist" -> t.dist_cache

\* the tree after the top-level query op(s, q) on t
AfterQuery(t, op, s, q) ==
  CASE op = "intersects" -> intersects(t, s, q).qt
    [] op = "contains" -> contains(t, s, q).qt
    [] op = "dist" -> dist(t, s, q).qt

QueryOps == { "intersects", "contains", "dist" }

\* query shapes that lie in several quadrants (and one that is empty), and a
\* filter that rejects some of the stored shapes
CacheProbes == { rt(U(1), U(1), U(3), U(3)), rt_excl(U(2), U(0), U(4), U(2)), EmptyRect }
CacheQueries == { ALL, Query(TagExcept(1), HasCommon({1})) }

\* C22: a top-level query inserts an outcome for a handle into its cache at
\* most once, so the predicate between the query shape and a stored shape is
\* evaluated at most once in the query: in the caches the last query left,
\* and in the cache of every query that can be made on the tree, no handle
\* has two inserts.
C22_EvaluatedAtMostOnce ==
  /\ \A op \in QueryOps : NoRepeat(CacheKeys(CacheOf(qt, op)))
  /\ \A op \in QueryOps, s \in CacheProbes, q \in CacheQueries :
       NoRepeat(CacheKeys(CacheOf(AfterQuery(qt, op, s, q), op)))

\* C22 witness: the query that followed the first subdivision of the tree
\* has tested one handle in two child nodes (its counter, 0 when it was
\* pushed down, is 1 in both), and its cache holds the handle.
C22_Witness ==
  /\ ret.op \in QueryOps
  /\ nqueries = TEST_THRESHOLD + 1 /\ nadds = 0 /\ nremoves = 0
  /\ \E h \in Live(qt) :
       /\ \E i \in 1..Len(CacheOf(qt, ret.op)) : CacheOf(qt, ret.op)[i].idx = h
       /\ \E n1, n2 \in 3..Len(qt.nodes) :
            /\ n1 # n2
            /\ IntersectData(h, 1) \in SeqToSet(qt.nodes[n1].intersect)
            /\ IntersectData(h, 1) \in SeqToSet(qt.nodes[n2].intersect)

\* the predicate of the top-level query op between a stored shape a and the
\* query shape s (query.rs:114, 132, 150)
QueryPredicate(op, a, s) ==
  CASE op = "intersects" -> intersects_shape(a, s)
    [] op = "contains" -> contains_shape(a, s)
    [] op = "dist" -> dist_to_shape(a, s)

\* the caches of t are as the query op(s, q) may leave them: every entry of
\* the cache of op is for a live handle that matches q and holds the outcome
\* of the predicate for s, and the two other caches are empty
CachesFrom(t, op, s, q) ==
  /\ \A o \in QueryOps \ { op } : CacheOf(t, o) = EmptyCache
  /\ \A i \in 1..Len(CacheOf(t, op)) :
       LET e == CacheOf(t, op)[i]
       IN /\ e.idx \in Live(t)
          /\ matches_query(InfoAt(t, e.idx), q)
          /\ e.res = QueryPredicate(op, InfoAt(t, e.idx).shape, s)

\* C23: the caches a top-level query leaves hold only outcomes computed in
\* that query: for its query shape, for live handles that match its filter,
\* and its two other caches are empty.  This holds for the last query made,
\* and for every query that can be made on the reachable tree, whatever an
\* earlier query left in the caches and whichever slots were removed and
\* reused since.
C23_CacheValid ==
  /\ ret.op \in QueryOps => \E i \in QueryInputs : CachesFrom(qt, ret.op, i[1], i[2])
  /\ \A op \in QueryOps, s \in CacheProbes, q \in CacheQueries :
       CachesFrom(AfterQuery(qt, op, s, q), op, s, q)

\* C23 witness: a query was made, then handle 0 of a tree built by new was
\* removed and its slot given to another shape by add_shape, and the query
\* just made has cached an outcome for the new shape of slot 0.
C23_Witness ==
  /\ ret.op \in QueryOps
  /\ nqueries >= 2 /\ nremoves >= 1 /\ nadds = 1
  /\ 0 \in Live(qt) /\ InfoAt(qt, 0).shape = RectC
  /\ Len(qt.shapes) = 3
  /\ \E i \in 1..Len(CacheOf(qt, ret.op)) : CacheOf(qt, ret.op)[i].idx = 0

----------------------------------------------------------------------------
(* One tree queried again and again at the same place, so that its shapes  *)
(* travel down to the deepest nodes.                                       *)

\* a small rectangle in the bottom-left corner of RectA and a thin strip along
\* its bottom edge; neither contains a quadrant of any depth
Corner == rt(0, 0, 1, 1)
Strip == rt(0, 0, U(4), 1)
DeepAddInputs == { ShapeInfo(Corner, 1, {0}), ShapeInfo(Strip, 1, {0}) }
DeepProbe == pt(0, 0)

DeepInit ==
  /\ qt = with_bounds(RectA)
  /\ ret = Ret("new", None, TRUE, << >>, FALSE, None)
  /\ removedSince = << >>
  /\ gone = {}
  /\ nadds = 0
  /\ nqueries = 0
  /\ nremoves = 0
  /\ tw = NoTwin
  /\ call = NoCall

DeepAddShape(s) ==
  /\ Len(qt.shapes) < MaxDeepShapes
  /\ LET x == add_shape(qt, s)
     IN /\ qt' = x.qt
        /\ ret' = Ret("add_shape", Some(s), x.ret.ok, x.ret.shape_idxs, FALSE, None)
  /\ nadds' = nadds + 1
  /\ UNCHANGED << removedSince, gone, nqueries, nremoves, tw, call >>

DeepIntersects ==
  /\ nqueries < MaxDeepQueries
  /\ LET x == intersects(qt, DeepProbe, ALL)
     IN /\ qt' = x.qt
        /\ ret' = Ret("intersects", None, TRUE, << >>, x.res, None)
  /\ nqueries' = nqueries + 1
  /\ UNCHANGED << removedSince, gone, nadds, nremoves, tw, call >>

DeepContains ==
  /\ nqueries < MaxDeepQueries
  /\ LET x == contains(qt, DeepProbe, ALL)
     IN /\ qt' = x.qt
        /\ ret' = Ret("contains", None, TRUE, << >>, x.res, None)
  /\ nqueries' = nqueries + 1
  /\ UNCHANGED << removedSince, gone, nadds, nremoves, tw, call >>

DeepDist ==
  /\ nqueries < MaxDeepQueries
  /\ LET x == dist(qt, DeepProbe, ALL)
     IN /\ qt' = x.qt
        /\ ret' = Ret("dist", None, TRUE, << >>, FALSE, x.res)
  /\ nqueries' = nqueries + 1
  /\ UNCHANGED << removedSince, gone, nadds, nremoves, tw, call >>

DeepNext ==
  \/ \E s \in DeepAddInputs : DeepAddShape(s)
  \/ DeepIntersects
  \/ DeepContains
  \/ DeepDist

SpecDeep == DeepInit /\ [][DeepNext]_vars

RECURSIVE NodesBelow(_, _, _)
\* the nodes of the subtree of node idx, each with its depth (the walk of
\* rts_internal, quadtree.rs:157-166)
NodesBelow(t, idx, depth) ==
  IF idx = NO_NODE THEN {}
  ELSE { << idx, depth >> }
         \cup UNION { NodesBelow(t, t.nodes[idx + 1][QuadOrder[k]], depth + 1) :
                        k \in 1..Len(QuadOrder) }

\* the greatest tests counter of the node's intersect list (0 for an empty list)
MaxTests(node) ==
  LET ts == { node.intersect[i].tests : i \in 1..Len(node.intersect) } \cup { 0 }
  IN CHOOSE m \in ts : \A x \in ts : x <= m

\* C12: between public calls every intersect entry of every node has
\* tests <= TEST_THRESHOLD, and an entry whose counter has reached the
\* threshold is found only in a node at depth MAX_DEPTH.
C12_TestsAtMostThreshold ==
  \A nd \in NodesBelow(qt, 1, 0) :
    /\ MaxTests(qt.nodes[nd[1] + 1]) <= TEST_THRESHOLD
    /\ MaxTests(qt.nodes[nd[1] + 1]) >= TEST_THRESHOLD => nd[2] = MAX_DEPTH

\* the child fields of node i of t that hold the index c
ParentLinks(t, c) ==
  { << i, k >> \in (1..(Len(t.nodes) - 1)) \X (1..Len(QuadOrder)) :
      t.nodes[i + 1][QuadOrder[k]] = c }

\* C27: nodes[0] is the default node, the array has 2 + 4k nodes, every node
\* from the root on has no children or four children at consecutive indices
\* above its own, every node past the root is the child of exactly one node,
\* and no node reached from the root is deeper than MAX_DEPTH + 1.
C27_NodeArrayShape ==
  LET n == Len(qt.nodes)
  IN /\ n >= 2 /\ (n - 2) % 4 = 0
     /\ qt.nodes[1] = DefaultNode
     /\ \A i \in 1..(n - 1) :
          LET node == qt.nodes[i + 1]
          IN \/ /\ node.bl = NO_NODE /\ node.br = NO_NODE
                /\ node.tr = NO_NODE /\ node.tl = NO_NODE
             \/ /\ node.bl > i /\ node.br = node.bl + 1
                /\ node.tr = node.bl + 2 /\ node.tl = node.bl + 3
                /\ node.tl < n
     /\ \A c \in 2..(n - 1) : Cardinality(ParentLinks(qt, c)) = 1
     /\ ParentLinks(qt, 1) = {}
     /\ \A nd \in NodesBelow(qt, 1, 0) : nd[2] <= MAX_DEPTH + 1
     /\ { nd[1] : nd \in NodesBelow(qt, 1, 0) } = 1..(n - 1)

\* C27 witness: the tree has been subdivided down to a node at depth
\* MAX_DEPTH + 1, and has been queried since.
C27_Witness ==
  /\ \E nd \in NodesBelow(qt, 1, 0) : nd[2] = MAX_DEPTH + 1
  /\ Len(qt.nodes) = 2 + 4 * (MAX_DEPTH + 1)
  /\ nqueries > TEST_THRESHOLD * (MAX_DEPTH + 1)

\* the entries of an intersect list that are due to go down
\* (quadtree.rs:450-451)
RipeEntries(node) == SelectSeq(node.intersect, LAMBDA v : v.tests >= TEST_THRESHOLD)
UnripeEntries(node) == SelectSeq(node.intersect, LAMBDA v : v.tests < TEST_THRESHOLD)

\* the handles of the entries of ripe whose shape intersects (contains) quad,
\* in the order of ripe
HandlesInto(sh, ripe, quad) ==
  LET into == SelectSeq(ripe, LAMBDA v :
                 intersects_shape(Unwrap(sh[v.shape_idx + 1]).shape, quad))
  IN [i \in 1..Len(into) |-> into[i].shape_idx]
HandlesOver(sh, ripe, quad) ==
  LET over == SelectSeq(ripe, LAMBDA v :
                 contains_shape(Unwrap(sh[v.shape_idx + 1]).shape, quad))
  IN [i \in 1..Len(over) |-> over[i].shape_idx]

\* the node array ns with every counter of node idx raised by b: the state of
\* a visit of the node just before the call of maybe_push_down
\* (quadtree.rs:299-307, 355-363, 433-438)
Tested(ns, idx, b) ==
  [ns EXCEPT ![idx + 1].intersect =
      [i \in 1..Len(@) |-> IntersectData(@[i].shape_idx, @[i].tests + b)]]

\* what the push-down step owes: out is the node array after the step on node
\* idx (rectangle r, depth depth) of the array ns
PushDownPost(sh, ns, out, idx, r, depth) ==
  LET node == ns[idx + 1]
      ripe == RipeEntries(node)
  IN IF depth > MAX_DEPTH \/ ripe = << >> THEN out = ns
     ELSE /\ out[idx + 1].intersect = UnripeEntries(node)
          /\ out[idx + 1].contain = node.contain
          /\ IF node.bl = NO_NODE
             THEN /\ Len(out) = Len(ns) + 4
                  /\ { out[idx + 1][QuadOrder[k]] : k \in 1..Len(QuadOrder) }
                       = Len(ns)..(Len(ns) + 3)
             ELSE /\ Len(out) = Len(ns)
                  /\ \A k \in 1..Len(QuadOrder) :
                       out[idx + 1][QuadOrder[k]] = node[QuadOrder[k]]
          /\ \A k \in 1..Len(QuadOrder) :
               LET c == out[idx + 1][QuadOrder[k]]
                   quad == Quadrant(r, QuadOrder[k])
                   before == IF c < Len(ns) THEN ns[c + 1] ELSE DefaultNode
                   into == HandlesInto(sh, ripe, quad)
               IN /\ out[c + 1].intersect =
                       before.intersect
                         \o [i \in 1..Len(into) |-> IntersectData(into[i], 0)]
                  /\ out[c + 1].contain = before.contain \o HandlesOver(sh, ripe, quad)
                  /\ \A f \in { "bl", "br", "tr", "tl" } : out[c + 1][f] = before[f]
          /\ \A j \in 0..(Len(ns) - 1) :
               (j # idx /\ \A k \in 1..Len(QuadOrder) : j # out[idx + 1][QuadOrder[k]])
                 => out[j + 1] = ns[j + 1]

\* C25: in a node at depth <= MAX_DEPTH no entry with tests >= TEST_THRESHOLD
\* is left between calls, and the push-down step at the end of a visit of any
\* node of the tree, whatever the counters of the visit, takes the entries
\* with tests >= TEST_THRESHOLD out of the node, appends each with tests = 0
\* to the intersect list of the children whose rectangle its shape intersects
\* and to the contain list of the children whose rectangle its shape
\* contains, keeps the other entries with their counters, changes no other
\* node, and changes nothing when no entry is ripe or depth > MAX_DEPTH.
C25_PushDownStep ==
  /\ \A nd \in NodesBelow(qt, 1, 0) :
       nd[2] <= MAX_DEPTH => RipeEntries(qt.nodes[nd[1] + 1]) = << >>
  /\ qt.bounds # None =>
       \A nr \in NodeRects(qt, 1, Unwrap(qt.bounds)) :
         \A nd \in NodesBelow(qt, 1, 0) :
           nd[1] = nr[1] =>
             \A b \in 0..TEST_THRESHOLD :
               LET ns == Tested(qt.nodes, nr[1], b)
               IN PushDownPost(qt.shapes, ns,
                               maybe_push_down(qt.shapes, ns, nr[1], nr[2], nd[2]),
                               nr[1], nr[2], nd[2])

\* C25 witness: a query has just pushed entries of the root down, one entry
\* stayed on the root's list with its counter, a child holds an entry with
\* tests = 0 and a child holds a contain entry.
C25_Witness ==
  /\ ret.op \in { "intersects", "contains", "dist" }
  /\ Subdivided(qt)
  /\ \E i \in 1..Len(qt.nodes[2].intersect) : qt.nodes[2].intersect[i].tests > 0
  /\ \E k \in 1..Len(QuadOrder) :
       LET c == qt.nodes[qt.nodes[2][QuadOrder[k]] + 1]
       IN /\ c.contain # << >>
          /\ \E i \in 1..Len(c.intersect) : c.intersect[i].tests = 0

----------------------------------------------------------------------------
(* The calls of the shape algebra, one pair of variants at a time.         *)
AlgOps == { "intersects_shape", "contains_shape", "dist_to_shape" }

\* a.op(b) for one pair of variants: the arm taken
Dispatch(op, ak, bk) ==
  /\ call' = [op |-> op, a |-> ak, b |-> bk, arm |-> ArmOf(op, ak, bk),
              aborted |-> ReachesTodo(op, ak, bk)]
  /\ UNCHANGED << qt, ret, removedSince, gone, nadds, nqueries, nremoves, tw >>

DispatchInit == DeepInit

DispatchNext == \E op \in AlgOps, ak \in ShapeKinds, bk \in ShapeKinds : Dispatch(op, ak, bk)

SpecDispatch == DispatchInit /\ [][DispatchNext]_vars

\* The pairs the shape algebra has to answer: (receiver, argument), every
\* boundary variant of each.
RequiredContains ==
  ({"Rect"} \X {"Capsule", "Circle", "Path", "Poly", "Segment", "Tri", "Point", "Rect"})
    \cup ({"Poly"} \X {"Capsule", "Circle", "Path", "Point", "Rect", "Segment"})
    \cup ({"Capsule", "Circle", "Tri"} \X {"Point", "Rect"})

RequiredIntersects ==
  ({"Capsule"} \X {"Capsule", "Circle", "Path", "Poly", "Rect", "Tri"})
    \cup ({"Circle"} \X {"Circle", "Path", "Poly", "Rect", "Tri"})
    \cup ({"Path"} \X {"Path", "Poly", "Rect"})
    \cup {<< "Poly", "Rect" >>, << "Segment", "Segment" >>, << "Line", "Line" >>}
    \cup ({"Rect"} \X {"Rect", "Segment", "Tri"})

PointPartners == { "Capsule", "Circle", "Line", "Path", "Point", "Poly", "Rect", "Segment", "Tri" }

RequiredDist == RequiredIntersects \cup ({"Point"} \X PointPartners) \cup (PointPartners \X {"Point"})

Required(op, ak, bk) ==
  CASE op = "intersects_shape" -> << Base(ak), Base(bk) >> \in RequiredIntersects
    [] op = "contains_shape" -> << Base(ak), Base(bk) >> \in RequiredContains
    [] op = "dist_to_shape" -> << Base(ak), Base(bk) >> \in RequiredDist

\* C13: every required pair is implemented: the contains_shape,
\* intersects_shape or dist_to_shape call on a required pair of variants
\* returns a value and does not reach a todo!().
C13_RequiredPairsImplemented ==
  call # NoCall => (Required(call.op, call.a, call.b) => ~call.aborted)

\* The variants a slot of the shape table holds after add_shape: every
\* variant with bounds that decompose_shape leaves whole.
StoredKinds == ShapeKinds \ { "Line", "Compound", "Path", "PathExcl" }

\* C28: the two calls maybe_push_down makes on a stored shape with a quadrant,
\* intersects_shape(Rect) and contains_shape(Rect), return for every variant
\* a slot can hold; neither reaches a todo!().
C28_PushDownPredicatesImplemented ==
  ( /\ call # NoCall
    /\ call.op \in { "intersects_shape", "contains_shape" }
    /\ call.a \in StoredKinds /\ call.b = "Rect" ) => ~call.aborted

----------------------------------------------------------------------------
(* The shape algebra on shapes: a.intersects_shape(b), a.contains_shape(b) *)
(* and a.dist_to_shape(b) for every pair of the shapes below.              *)
Q00 == P(U(0), U(0))
Q40 == P(U(4), U(0))
Q44 == P(U(4), U(4))
Q04 == P(U(0), U(4))
Q22 == P(U(2), U(2))
Q42 == P(U(4), U(2))
Q62 == P(U(6), U(2))

SquarePts == << Q00, Q40, Q44, Q04 >>

RectRight == rt(U(4), U(0), U(6), U(4))
RectRightExcl == rt_excl(U(4), U(0), U(6), U(4))
SegEdge == seg(Q40, Q44)

AlgShapes ==
  { pt(U(2), U(2)), pt(U(4), U(2)),
    SegEdge, seg(Q42, Q62), seg(Q22, Q62), seg(Q44, Q04), seg(Q00, Q04),
    line, LineOf(Q00, Q40),
    RectA, RectAExcl, RectRight, RectRightExcl, EmptyRect,
    rt(U(2), U(0), U(2), U(4)), rt(U(1), U(1), U(3), U(3)),
    circ(Q22, 0), circ_excl(Q22, 0), circ(Q62, U(2)), circ_excl(Q62, U(2)), circ(Q22, U(1)),
    circ(Q22, U(2)), circ_excl(Q22, U(2)),
    cap(P(U(6), U(0)), P(U(6), U(4)), U(2)), cap_excl(P(U(6), U(0)), P(U(6), U(4)), U(2)),
    cap_excl(P(U(1), U(1)), P(U(3), U(3)), 0), cap(P(U(1), U(2)), P(U(3), U(2)), 0),
    cap(Q22, Q22, U(1)),
    tri(Q40, P(U(8), U(0)), Q44), tri_excl(Q40, P(U(8), U(0)), Q44),
    tri_excl(Q00, P(U(2), U(0)), Q40), tri(P(U(1), U(1)), P(U(3), U(1)), P(U(1), U(3))),
    poly_excl(<< Q00, Q40 >>, << >>), poly(<< >>, << >>), poly(<< Q22 >>, << >>),
    path(<< P(U(6), U(0)), P(U(6), U(4)) >>, U(2)), path_excl(<< P(U(1), U(1)), P(U(3), U(1)) >>, 0),
    path(<< >>, U(1)), path(<< Q22 >>, U(1)),
    compound(<< RectA >>), compound(<< >>), compound(<< EmptyRect >>) }
    \cup { poly(SquarePts, e) : e \in Earcuts(SquarePts) }
    \cup { poly_excl(SquarePts, e) : e \in Earcuts(SquarePts) }

\* compound.rs:17-30: Compound::default() and an add_shape for every part
CompoundTree(c) ==
  LET T[i \in 0..Len(c.parts)] ==
        IF i = 0 THEN with_bounds(rt(0, 0, 0, 0))
        ELSE add_shape(T[i - 1], ShapeInfo(c.parts[i], 0, {})).qt
  IN T[Len(c.parts)]

\* The pairs the calls are made with.  A Compound answers through its
\* quadtree, which the model follows for rectangle and point arguments.
AlgPairs ==
  { ab \in AlgShapes \X AlgShapes :
      ab[1].k = "Compound" => Base(ab[2].k) \in { "Rect", "Point" } }

\* the call panics: a todo!(), or the unwrap in path_poly_dist
Aborts(op, a, b) ==
  \/ ReachesTodo(op, a.k, b.k)
  \/ /\ op = "dist_to_shape"
     /\ ArmOf(op, a.k, b.k).f = "path_poly_dist"
     /\ LET x == IF ArmOf(op, a.k, b.k).swap THEN b ELSE a
            y == IF ArmOf(op, a.k, b.k).swap THEN a ELSE b
        IN path_poly_dist_panics(x, y)

\* shape.rs:110-129, compound.rs:69-71
ShapeIntersects(a, b) ==
  IF a.k = "Compound" THEN intersects(CompoundTree(a), b, ALL).res
  ELSE LET arm == intersects_shape_impl[Base(a.k)][Base(b.k)]
           x == IF arm.swap THEN b ELSE a
           y == IF arm.swap THEN a ELSE b
       IN EvalIntersects(arm.f, x, y)

\* shape.rs:131-150, compound.rs:75-77
ShapeContains(a, b) ==
  IF a.k = "Compound" THEN contains(CompoundTree(a), b, ALL).res
  ELSE LET arm == contains_shape_impl[Base(a.k)][Base(b.k)]
           x == IF arm.swap THEN b ELSE a
           y == IF arm.swap THEN a ELSE b
       IN EvalContains(arm.f, x, y)

\* shape.rs:152-171, compound.rs:79-81
ShapeDist(a, b) ==
  IF a.k = "Compound" THEN dist(CompoundTree(a), b, ALL).res
  ELSE LET arm == dist_to_shape_impl[Base(a.k)][Base(b.k)]
           x == IF arm.swap THEN b ELSE a
           y == IF arm.swap THEN a ELSE b
       IN EvalDist(arm.f, x, y)

\* what a call leaves: whether it panicked, else the value it returned
Outcome(op, a, b, aborted, hit, d) ==
  [op |-> op, a |-> a, b |-> b, aborted |-> aborted, hit |-> hit, dist |-> d]

\* the operands drawn, no call made on them yet
Operands(a, b) == Outcome("operands", a, b, FALSE, FALSE, None)

CallIntersects ==
  /\ call # NoCall /\ call.op = "operands"
  /\ call' = IF Aborts("intersects_shape", call.a, call.b)
             THEN Outcome("intersects_shape", call.a, call.b, TRUE, FALSE, None)
             ELSE Outcome("intersects_shape", call.a, call.b, FALSE, ShapeIntersects(call.a, call.b), None)
  /\ UNCHANGED << qt, ret, removedSince, gone, nadds, nqueries, nremoves, tw >>

CallContains ==
  /\ call # NoCall /\ call.op = "operands"
  /\ call' = IF Aborts("contains_shape", call.a, call.b)
             THEN Outcome("contains_shape", call.a, call.b, TRUE, FALSE, None)
             ELSE Outcome("contains_shape", call.a, call.b, FALSE, ShapeContains(call.a, call.b), None)
  /\ UNCHANGED << qt, ret, removedSince, gone, nadds, nqueries, nremoves, tw >>

CallDist ==
  /\ call # NoCall /\ call.op = "operands"
  /\ call' = IF Aborts("dist_to_shape", call.a, call.b)
             THEN Outcome("dist_to_shape", call.a, call.b, TRUE, FALSE, None)
             ELSE Outcome("dist_to_shape", call.a, call.b, FALSE, FALSE, ShapeDist(call.a, call.b))
  /\ UNCHANGED << qt, ret, removedSince, gone, nadds, nqueries, nremoves, tw >>

AlgInit ==
  /\ qt = with_bounds(RectA)
  /\ ret = Ret("new", None, TRUE, << >>, FALSE, None)
  /\ removedSince = << >>
  /\ gone = {}
  /\ nadds = 0
  /\ nqueries = 0
  /\ nremoves = 0
  /\ tw = NoTwin
  /\ \E ab \in AlgPairs : call = Operands(ab[1], ab[2])

AlgNext == CallIntersects \/ CallContains \/ CallDist

SpecAlgebra == AlgInit /\ [][AlgNext]_vars

Returned(op) == call.op = op /\ ~call.aborted

\* C14: the empty-set laws.  A contains_shape call whose argument is the
\* empty set returns true, whatever the receiver; an intersects_shape call
\* with an empty operand on either side returns false; a contains_shape call
\* on an empty receiver returns true only for an empty argument.
C14_EmptySetLaws ==
  /\ Returned("contains_shape") /\ shape_is_empty_set(call.b) => call.hit
  /\ Returned("intersects_shape") /\ (shape_is_empty_set(call.a) \/ shape_is_empty_set(call.b)) => ~call.hit
  /\ Returned("contains_shape") /\ shape_is_empty_set(call.a) /\ ~shape_is_empty_set(call.b) => ~call.hit

\* A call of op that reached an implemented arm (it may still have panicked).
Implemented(op) == call.op = op /\ ~ReachesTodo(op, call.a.k, call.b.k)

\* C15: a dist_to_shape call on an implemented pair returns, and it returns
\* None exactly when at least one operand is the empty set; for two non-empty
\* operands it returns Some(d) with d >= 0.
C15_NoneIffEmptyOperand ==
  Implemented("dist_to_shape") =>
    /\ ~call.aborted
    /\ (call.dist = None) <=> (shape_is_empty_set(call.a) \/ shape_is_empty_set(call.b))
    /\ call.dist # None => call.dist[1] >= 0

\* The closed set with the outline of s: its Include variant.
Closed(s) == [s EXCEPT !.k = Base(s.k)]

\* Shapes that reach the line x = 4 from the left: the square [0,4] x [0,4],
\* as a rectangle and as a polygon, and the disc of radius 2 around (2,2),
\* whose rightmost point is (4,2).
TouchLeft ==
  { RectA, circ(Q22, U(2)) } \cup { poly(SquarePts, e) : e \in Earcuts(SquarePts) }

\* Shapes that reach the line x = 4 from the right, each containing (4,2):
\* the rectangle [4,6] x [0,4], the triangle (4,0) (8,0) (4,4), the disc of
\* radius 2 around (6,2), the capsule and the path of radius 2 around the
\* segment (6,0)-(6,4), the segment (4,0)-(4,4) on the line itself, the
\* segment (4,2)-(6,2) that starts on it, and the point (4,2).
TouchRight ==
  { RectRight, tri(Q40, P(U(8), U(0)), Q44), circ(Q62, U(2)),
    cap(P(U(6), U(0)), P(U(6), U(4)), U(2)),
    path(<< P(U(6), U(0)), P(U(6), U(4)) >>, U(2)),
    SegEdge, seg(Q42, Q62), pt(U(4), U(2)) }

\* a and b only touch: their closures meet on the line x = 4 and nowhere else
OnlyTouch(a, b) ==
  \/ Closed(a) \in TouchLeft /\ Closed(b) \in TouchRight
  \/ Closed(a) \in TouchRight /\ Closed(b) \in TouchLeft

\* C16: an intersects_shape call on two shapes that only touch returns true
\* exactly when both operands include their boundary, and false as soon as
\* one of them is an Exclude variant.
C16_TouchNeedsBothBoundaries ==
  call.op = "intersects_shape" /\ ~call.aborted /\ OnlyTouch(call.a, call.b) =>
    (call.hit <=> (~Excl(call.a) /\ ~Excl(call.b)))

\* the segment with its endpoints exchanged
SegRev(s) == seg(En(s), St(s))

\* the call with the operands exchanged returns the same value
SameReversed(op) ==
  /\ ~Aborts(op, call.b, call.a)
  /\ op = "intersects_shape" => ShapeIntersects(call.b, call.a) = call.hit
  /\ op = "dist_to_shape" => ShapeDist(call.b, call.a) = call.dist

\* the operands can also be passed in the other order
Reversible == << call.b, call.a >> \in AlgPairs

\* C17: when a.intersects_shape(b) or a.dist_to_shape(b) returns a value,
\* the call with the operands exchanged returns the same value; for two
\* rectangles Rt::intersects is symmetric, and for two segments
\* seg_intersects_seg does not depend on the order of its arguments nor on
\* the order of the endpoints of either segment.
C17_Symmetric ==
  /\ \A op \in { "intersects_shape", "dist_to_shape" } :
       call.op = op /\ ~call.aborted /\ Reversible => SameReversed(op)
  /\ call.op = "intersects_shape" /\ Base(call.a.k) = "Rect" /\ Base(call.b.k) = "Rect" =>
       RtIntersects(call.a, call.b) = RtIntersects(call.b, call.a)
  /\ call.op = "intersects_shape" /\ call.a.k = "Segment" /\ call.b.k = "Segment" =>
       /\ seg_intersects_seg(call.a, call.b) = seg_intersects_seg(call.b, call.a)
       /\ seg_intersects_seg(call.a, call.b) = seg_intersects_seg(SegRev(call.a), call.b)
       /\ seg_intersects_seg(call.a, call.b) = seg_intersects_seg(call.a, SegRev(call.b))

\* C18: when a.contains_shape(b) returns true for a non-empty b, and
\* intersects_shape is implemented for the pair, a.intersects_shape(b)
\* returns true.
C18_ContainsImpliesIntersects ==
  ( /\ call.op = "contains_shape" /\ ~call.aborted /\ call.hit
    /\ ~shape_is_empty_set(call.b)
    /\ ~Aborts("intersects_shape", call.a, call.b) ) =>
    ShapeIntersects(call.a, call.b)

----------------------------------------------------------------------------
\* The construction of outlines: remove_collinear, ensure_ccw and the
\* constructors that call them, applied to point sequences over a small
\* lattice.

MaxPts == 4

Lattice == { P(x, y) : x \in { 0, 1, 3 }, y \in { 0, 1, 3 } }

PtSeqs == UNION { [1..n -> Lattice] : n \in 0..MaxPts }

\* the points drawn, nothing built from them yet
Points(pts) == [op |-> "points", pts |-> pts, wrap |-> FALSE, out |-> << >>]

CallRemoveCollinear(wrap_around) ==
  /\ call.op = "points"
  /\ call' = [op |-> "remove_collinear", pts |-> call.pts, wrap |-> wrap_around,
              out |-> remove_collinear(call.pts, wrap_around)]
  /\ UNCHANGED << qt, ret, removedSince, gone, nadds, nqueries, nremoves, tw >>

\* PolyPrimitive::new; out is the stored outline
CallPolyNew ==
  /\ call.op = "points"
  /\ \E e \in Earcuts(PolyOutline(call.pts)) :
       call' = [op |-> "PolyPrimitive::new", pts |-> call.pts, wrap |-> TRUE,
                out |-> PolyNew("Poly", call.pts, e).pts]
  /\ UNCHANGED << qt, ret, removedSince, gone, nadds, nqueries, nremoves, tw >>

\* TriPrimitive::new takes exactly three points; out is the stored array
CallTriNew ==
  /\ call.op = "points"
  /\ Len(call.pts) = 3
  /\ call' = [op |-> "TriPrimitive::new", pts |-> call.pts, wrap |-> FALSE,
              out |-> tri(call.pts[1], call.pts[2], call.pts[3]).pts]
  /\ UNCHANGED << qt, ret, removedSince, gone, nadds, nqueries, nremoves, tw >>

\* PathPrimitive::new; out is the stored point list
CallPathNew ==
  /\ call.op = "points"
  /\ call' = [op |-> "PathPrimitive::new", pts |-> call.pts, wrap |-> FALSE,
              out |-> path(call.pts, U(1)).pts]
  /\ UNCHANGED << qt, ret, removedSince, gone, nadds, nqueries, nremoves, tw >>

ConvexInit ==
  /\ qt = with_bounds(RectA)
  /\ ret = Ret("new", None, TRUE, << >>, FALSE, None)
  /\ removedSince = << >>
  /\ gone = {}
  /\ nadds = 0
  /\ nqueries = 0
  /\ nremoves = 0
  /\ tw = NoTwin
  /\ \E pts \in PtSeqs : call = Points(pts)

ConvexNext ==
  \/ \E w \in BOOLEAN : CallRemoveCollinear(w)
  \/ CallPolyNew
  \/ CallTriNew
  \/ CallPathNew

SpecConvex == ConvexInit /\ [][ConvexNext]_vars

\* twice the signed area of the closed outline pts (shoelace formula)
RECURSIVE Area2From(_, _)
Area2From(pts, i) ==
  IF i > Len(pts) THEN 0
  ELSE cross(pts[i], pts[(i % Len(pts)) + 1]) + Area2From(pts, i + 1)

Area2(pts) == Area2From(pts, 1)

\* the side of the line through a and b on which c lies: 1 left, -1 right, 0 on it
Side(a, b, c) ==
  LET o == cross(PtSub(b, a), PtSub(c, a))
  IN IF o > 0 THEN 1 ELSE IF o < 0 THEN -1 ELSE 0

\* the closed segments ab and cd have a common point (a, b, c, d not all on one line)
SegsMeet(a, b, c, d) ==
  /\ Side(a, b, c) * Side(a, b, d) <= 0
  /\ Side(c, d, a) * Side(c, d, b) <= 0

\* pts is the outline of a simple polygon: at least three distinct points,
\* no three consecutive ones on a line, and no two edges that are not
\* neighbours have a common point.
Simple(pts) ==
  LET n == Len(pts)
      at(i) == pts[((i - 1) % n) + 1]
  IN /\ n >= 3
     /\ \A i, j \in 1..n : i # j => pts[i] # pts[j]
     /\ \A i \in 1..n : Side(at(i), at(i + 1), at(i + 2)) # 0
     /\ \A i, j \in 1..n :
          (i < j /\ j # i + 1 /\ ~(i = 1 /\ j = n)) =>
            ~SegsMeet(at(i), at(i + 1), at(j), at(j + 1))

\* C19: the outline stored by PolyPrimitive::new for a simple polygon, in
\* either orientation and from any starting vertex, has a non-negative
\* signed area, and so have the three points stored by TriPrimitive::new.
C19_StoredOutlineIsCcw ==
  /\ call.op = "PolyPrimitive::new" /\ Simple(call.pts) => Area2(call.out) >= 0
  /\ call.op = "TriPrimitive::new" => Area2(call.out) >= 0

\* a, b and c lie on one line
OnOneLine(a, b, c) == Side(a, b, c) = 0

\* no three consecutive points of out lie on one line
NoCollinearRun(out) ==
  \A i \in 1..(Len(out) - 2) : ~OnOneLine(out[i], out[i + 1], out[i + 2])

\* nor do the triples across the seam of the closed outline
NoCollinearSeam(out) ==
  Len(out) >= 3 =>
    /\ ~OnOneLine(out[Len(out)], out[1], out[2])
    /\ ~OnOneLine(out[Len(out) - 1], out[Len(out)], out[1])

\* C20: the result of remove_collinear has no three consecutive collinear
\* points, and with wrap_around none across the seam either; the same
\* holds for the points a path stores and for the outline a polygon stores
\* before it is oriented.
C20_NoCollinearTripleLeft ==
  /\ call.op = "remove_collinear" =>
       /\ NoCollinearRun(call.out)
       /\ call.wrap => NoCollinearSeam(call.out)
  /\ call.op = "PathPrimitive::new" => NoCollinearRun(call.out)
  /\ call.op = "PolyPrimitive::new" => NoCollinearRun(call.out) /\ NoCollinearSeam(call.out)

----------------------------------------------------------------------------
(* tf.rs: the transforms.  A matrix entry is a number (p + q * sqrt 2) / d *)
(* with integers p, q and one denominator d for the whole matrix, so that  *)
(* scalings, translations and rotations by multiples of 45 degrees, and    *)
(* their products, are exact.  Radii and lengths are kept squared.         *)

R2(p, q) == [p |-> p, q |-> q]
R2Int(n) == R2(n, 0)
R2Add(a, b) == R2(a.p + b.p, a.q + b.q)
R2Neg(a) == R2(-a.p, -a.q)
R2Mul(a, b) == R2(a.p * b.p + 2 * a.q * b.q, a.p * b.q + a.q * b.p)
\* the sign of p + q * sqrt 2
R2Sign(a) ==
  IF a.p >= 0 /\ a.q >= 0 THEN (IF a.p = 0 /\ a.q = 0 THEN 0 ELSE 1)
  ELSE IF a.p <= 0 /\ a.q <= 0 THEN -1
  ELSE IF a.p > 0 THEN (IF a.p * a.p > 2 * a.q * a.q THEN 1 ELSE -1)
  ELSE (IF 2 * a.q * a.q > a.p * a.p THEN 1 ELSE -1)
\* f64::abs
R2Abs(a) == IF R2Sign(a) < 0 THEN R2Neg(a) ELSE a

Mat(r1, r2, r3) == << r1, r2, r3 >>
MatMul(a, b) ==
  [i \in 1..3 |-> [j \in 1..3 |->
     R2Add(R2Add(R2Mul(a[i][1], b[1][j]), R2Mul(a[i][2], b[2][j])), R2Mul(a[i][3], b[3][j]))]]
MatHalvable(m) == \A i, j \in 1..3 : m[i][j].p % 2 = 0 /\ m[i][j].q % 2 = 0
MatHalf(m) == [i \in 1..3 |-> [j \in 1..3 |-> R2(m[i][j].p \div 2, m[i][j].q \div 2)]]

RECURSIVE TfOver(_, _)
\* the transform with the entries m / d, in lowest terms (d is a power of 2)
TfOver(m, d) ==
  IF d % 2 = 0 /\ MatHalvable(m) THEN TfOver(MatHalf(m), d \div 2)
  ELSE [m |-> m, d |-> d]

Zero == R2Int(0)
One == R2Int(1)

\* tf.rs:32-34
identity == TfOver(Mat(<< One, Zero, Zero >>, << Zero, One, Zero >>, << Zero, Zero, One >>), 1)

\* tf.rs:36-38
scale(x, y) ==
  TfOver(Mat(<< R2Int(x), Zero, Zero >>, << Zero, R2Int(y), Zero >>, << Zero, Zero, One >>), 1)

\* tf.rs:40-42
translate(x, y) ==
  TfOver(Mat(<< One, Zero, R2Int(x) >>, << Zero, One, R2Int(y) >>, << Zero, Zero, One >>), 1)

\* twice the cosine and the sine of a multiple of 45 degrees
Cos2(deg) ==
  CASE deg % 360 = 0 -> R2(2, 0)
    [] deg % 360 = 45 -> R2(0, 1)
    [] deg % 360 = 90 -> R2(0, 0)
    [] deg % 360 = 135 -> R2(0, -1)
    [] deg % 360 = 180 -> R2(-2, 0)
    [] deg % 360 = 225 -> R2(0, -1)
    [] deg % 360 = 270 -> R2(0, 0)
    [] deg % 360 = 315 -> R2(0, 1)
Sin2(deg) == Cos2(deg + 270)

\* tf.rs:44-46
rotate(deg) ==
  TfOver(Mat(<< Cos2(deg), R2Neg(Sin2(deg)), Zero >>,
             << Sin2(deg), Cos2(deg), Zero >>,
             << Zero, Zero, R2Int(2) >>), 2)

\* tf.rs:169
TfMul(a, b) == TfOver(MatMul(a.m, b.m), a.d * b.d)

\* tf.rs:64-67: the image of the point (x, y), its coordinates over tf.d
Tf_pt(tf, x, y) ==
  LET v(i) == R2Add(R2Add(R2Mul(tf.m[i][1], R2Int(x)), R2Mul(tf.m[i][2], R2Int(y))), tf.m[i][3])
  IN [x |-> v(1), y |-> v(2), d |-> tf.d]

\* tf.rs:93-100 (m[(r, c)] is row r, column c, both from 0)
is_similar(tf) ==
  /\ eq(tf.m[3][1], Zero)
  /\ eq(tf.m[3][2], Zero)
  /\ eq(tf.m[3][3], R2Int(tf.d))
  /\ eq(R2Abs(tf.m[1][1]), R2Abs(tf.m[2][2]))
  /\ eq(tf.m[1][2], R2Neg(tf.m[2][1]))

\* tf.rs:102-105: the square of the returned length, num / den
length(tf, l) ==
  IF is_similar(tf)
  THEN Some([num |-> R2Mul(R2Int(l * l),
                           R2Add(R2Mul(tf.m[1][1], tf.m[1][1]), R2Mul(tf.m[2][1], tf.m[2][1]))),
             den |-> tf.d * tf.d])
  ELSE None

\* tf.rs:107-110
Tf_cap(tf, c) ==
  LET r == length(tf, c.r)
  IN IF r = None THEN None
     ELSE Some([k |-> c.k, st |-> Tf_pt(tf, c.st.x, c.st.y), en |-> Tf_pt(tf, c.en.x, c.en.y),
                r2 |-> Unwrap(r)])

\* tf.rs:112-115
Tf_circ(tf, c) ==
  LET r == length(tf, c.r)
  IN IF r = None THEN None
     ELSE Some([k |-> c.k, p |-> Tf_pt(tf, c.p.x, c.p.y), r2 |-> Unwrap(r)])

\* tf.rs:120-124
Tf_path(tf, p) ==
  LET r == length(tf, p.r)
  IN IF r = None THEN None
     ELSE Some([k |-> p.k, pts |-> [i \in 1..Len(p.pts) |-> Tf_pt(tf, p.pts[i].x, p.pts[i].y)],
                r2 |-> Unwrap(r)])

MaxTfFactors == 4

\* the transforms a product is made of, by the call that makes them
TfFactors ==
  { "identity()", "scale(pt(2,2))", "scale(pt(1,-1))", "scale(pt(1,3))",
    "translate(pt(1,2))", "rotate(45)", "rotate(90)", "rotate(-45)" }
TfOf(name) ==
  CASE name = "identity()" -> identity
    [] name = "scale(pt(2,2))" -> scale(2, 2)
    [] name = "scale(pt(1,-1))" -> scale(1, -1)
    [] name = "scale(pt(1,3))" -> scale(1, 3)
    [] name = "translate(pt(1,2))" -> translate(1, 2)
    [] name = "rotate(45)" -> rotate(45)
    [] name = "rotate(90)" -> rotate(90)
    [] name = "rotate(-45)" -> rotate(315)

TfRadius == 2
TfCircle == circ(P(1, 2), TfRadius)
TfCapsule == cap(P(0, 0), P(3, 1), TfRadius)
TfPath == path(<< P(0, 0), P(3, 1), P(3, 4) >>, TfRadius)

\* a product of transforms, no call made on it yet
TfOperand(factors, tf) == [op |-> "tf", factors |-> factors, tf |-> tf, res |-> None]
TfOutcome(op, res) == [op |-> op, factors |-> call.factors, tf |-> call.tf, res |-> res]

\* a * b of tf.rs:169, with the transform at hand on the left
TfCompose(name) ==
  /\ call # NoCall /\ call.op = "tf" /\ Len(call.factors) < MaxTfFactors
  /\ call' = TfOperand(Append(call.factors, name), TfMul(call.tf, TfOf(name)))
  /\ UNCHANGED << qt, ret, removedSince, gone, nadds, nqueries, nremoves, tw >>

TfLength ==
  /\ call # NoCall /\ call.op = "tf"
  /\ call' = TfOutcome("length", LET r == length(call.tf, TfRadius)
                                 IN IF r = None THEN None ELSE Some([r2 |-> Unwrap(r)]))
  /\ UNCHANGED << qt, ret, removedSince, gone, nadds, nqueries, nremoves, tw >>

TfCirc ==
  /\ call # NoCall /\ call.op = "tf"
  /\ call' = TfOutcome("circ", Tf_circ(call.tf, TfCircle))
  /\ UNCHANGED << qt, ret, removedSince, gone, nadds, nqueries, nremoves, tw >>

TfCap ==
  /\ call # NoCall /\ call.op = "tf"
  /\ call' = TfOutcome("cap", Tf_cap(call.tf, TfCapsule))
  /\ UNCHANGED << qt, ret, removedSince, gone, nadds, nqueries, nremoves, tw >>

TfPathCall ==
  /\ call # NoCall /\ call.op = "tf"
  /\ call' = TfOutcome("path", Tf_path(call.tf, TfPath))
  /\ UNCHANGED << qt, ret, removedSince, gone, nadds, nqueries, nremoves, tw >>

TfInit ==
  /\ qt = with_bounds(RectA)
  /\ ret = Ret("new", None, TRUE, << >>, FALSE, None)
  /\ removedSince = << >>
  /\ gone = {}
  /\ nadds = 0
  /\ nqueries = 0
  /\ nremoves = 0
  /\ tw = NoTwin
  /\ \E name \in TfFactors : call = TfOperand(<< name >>, TfOf(name))

TfNext ==
  \/ \E name \in TfFactors : TfCompose(name)
  \/ TfLength
  \/ TfCirc
  \/ TfCap
  \/ TfPathCall

SpecTf == TfInit /\ [][TfNext]_vars

\* the linear part of tf maps the plane by a rotation or a reflection followed
\* by a uniform scaling with a factor other than 0, and the bottom row is
\* (0, 0, 1): the columns of the linear part are orthogonal and of one length
Similarity(tf) ==
  LET a == tf.m[1][1]
      b == tf.m[1][2]
      c == tf.m[2][1]
      e == tf.m[2][2]
  IN /\ tf.m[3] = << Zero, Zero, R2Int(tf.d) >>
     /\ R2Add(R2Mul(a, b), R2Mul(c, e)) = Zero
     /\ R2Add(R2Mul(a, a), R2Mul(c, c)) = R2Add(R2Mul(b, b), R2Mul(e, e))
     /\ R2Add(R2Mul(a, a), R2Mul(c, c)) # Zero

\* |det| of the linear part, over tf.d * tf.d: the square of the factor by
\* which a similarity scales every length
AreaFactor(tf) ==
  R2Abs(R2Add(R2Mul(tf.m[1][1], tf.m[2][2]), R2Neg(R2Mul(tf.m[1][2], tf.m[2][1]))))

TfCalls == { "length", "circ", "cap", "path" }

\* C21: length, circ, cap and path return Some exactly for a similarity, and
\* the returned radius is the argument's radius times the factor by which
\* the similarity scales lengths.
C21_SomeIffSimilarity ==
  (call # NoCall /\ call.op \in TfCalls) =>
    /\ (call.res # None) <=> Similarity(call.tf)
    /\ call.res # None =>
         /\ Unwrap(call.res).r2.den = call.tf.d * call.tf.d
         /\ Unwrap(call.res).r2.num = R2Mul(R2Int(TfRadius * TfRadius), AreaFactor(call.tf))

----------------------------------------------------------------------------
(* Trees built from compounds and paths: the shape table after new,        *)
(* with_bounds, add_shape and remove_shape.                                *)

MaxBuildAdds == 2
MaxBuildRemoves == 1

\* a path of two legs, which caps() splits into two capsules
BuildPath == path(<< P(U(1), U(1)), P(U(3), U(1)), P(U(3), U(3)) >>, U(1))
BuildPathExcl == path_excl(<< P(U(1), U(2)), P(U(2), U(2)) >>, U(1))
\* a compound holding a rectangle and a capsule (Compound::add_shape has
\* flattened whatever was added to it, compound.rs:28-30)
BuildCompound == compound(<< RectC, cap(P(U(1), U(1)), P(U(2), U(1)), U(1)) >>)

\* QuadTree::new
BuildNewInputs ==
  { << >>,
    << ShapeInfo(RectA, 1, {0}) >>,
    << ShapeInfo(BuildPath, 1, {0}) >>,
    << ShapeInfo(BuildCompound, 2, {1}) >>,
    << ShapeInfo(RectA, 1, {0}), ShapeInfo(BuildPathExcl, 2, {0, 1}) >> }

\* QuadTree::add_shape
BuildAddInputs ==
  { ShapeInfo(RectB, 2, {0, 1}),
    ShapeInfo(BuildPath, 1, {0}),
    ShapeInfo(BuildPathExcl, 2, {1}),
    ShapeInfo(BuildCompound, 1, {1}),
    ShapeInfo(line, 1, {0}) }

BuildInit ==
  /\ \/ \E shapes \in BuildNewInputs :
          /\ qt = new(shapes).qt
          /\ ret = Ret("new", None, TRUE, << >>, FALSE, None)
     \/ /\ qt = with_bounds(RectA)
        /\ ret = Ret("with_bounds", None, TRUE, << >>, FALSE, None)
  /\ removedSince = << >>
  /\ gone = {}
  /\ nadds = 0
  /\ nqueries = 0
  /\ nremoves = 0
  /\ tw = NoTwin
  /\ call = NoCall

BuildAddShape(s) ==
  /\ nadds < MaxBuildAdds
  /\ LET x == add_shape(qt, s)
     IN /\ qt' = x.qt
        /\ ret' = Ret("add_shape", Some(s), x.ret.ok, x.ret.shape_idxs, FALSE, None)
  /\ nadds' = nadds + 1
  /\ UNCHANGED << removedSince, gone, nqueries, nremoves, tw, call >>

BuildRemoveShape(h) ==
  /\ nremoves < MaxBuildRemoves
  /\ qt' = remove_shape(qt, h)
  /\ ret' = Ret("remove_shape", Some(h), TRUE, << >>, FALSE, None)
  /\ nremoves' = nremoves + 1
  /\ UNCHANGED << removedSince, gone, nadds, nqueries, tw, call >>

BuildNext ==
  \/ \E s \in BuildAddInputs : BuildAddShape(s)
  \/ \E h \in Handles : BuildRemoveShape(h)

SpecBuild == BuildInit /\ [][BuildNext]_vars

\* C24: no occupied slot of the shape table holds a Compound, a Path or a
\* PathExcl.
C24_NoCompoundInTable ==
  \A i \in 1..Len(qt.shapes) :
    qt.shapes[i] # None =>
      Unwrap(qt.shapes[i]).shape.k \notin { "Compound", "Path", "PathExcl" }

====
